---- MODULE Spec2Model ----
(***************************************************************************)
(* Model of the statistics aggregation of ThreeDiStatistics                *)
(* (src/tools/statistics.py, class StatisticsTool).                        *)
(*                                                                         *)
(* Numbers.  Water levels, discharges and velocities are integers in the   *)
(* unit of the last decimal the code keeps (round(x, 3) of a level is the  *)
(* level itself), timestamps are integer seconds.  Percentages that the    *)
(* code rounds to one decimal are integers in units of 0.1 %.              *)
(*                                                                         *)
(* Arrays are functions over 0..n-1 (the Python index); the time axis is a *)
(* sequence, read through PyIndex, which is Python's indexing: a negative  *)
(* index counts from the end.                                              *)
(***************************************************************************)
EXTENDS Integers, Sequences, FiniteSets, TLC

VARIABLES
    ds,                     \* the time-series source (self.ds)
    v2_manhole,             \* model database: manholes, ordered by connection_node_id
    v2_pumpstation,         \* model database: pumps, ordered by id
    node_mapping,           \* result database: Node.spatialite_id -> Node.id
    flowlines,              \* result database: Flowline rows ordered by id
    v2_pipe,                \* model database: pipes with their profile
    v2_weir,                \* model database: weirs
    pc,                     \* position in run()
    i,                      \* loop index of the running time loop
    prev_timestamp,
    manhole_idx, manhole_surface_level, agg_h_max, h_max, t_water_surface,
    qcum, qcum_pos, qcum_neg, agg_q_cum, agg_q_cum_pos, agg_q_cum_neg,
    qmax, vmax, dh_max, hmax_start, hmax_end,
    q_cum, pump_agg_q_cum, q_max,
    manhole_stats, flowline_stats, pumpline_stats, stat_source,
    pipe_stats, weir_stats, \* committed rows of PipeStats and WeirStats
    session,                \* res_session: the open transaction, if any
    run_nr,                 \* how many times run() was started
    prev_run,               \* inputs and stores as the previous run() left them
    call,                   \* per (table, field): the arguments of the latest
                            \* direct call of set_stat_source and whether the
                            \* pair was set before
    res_views,              \* result database: pump_stats_view is registered
    calculate_stats,        \* local of run()
    map_layers              \* the run that filled the statistics layer group
                            \* of the map last, 0 when it is empty

vars == << ds, v2_manhole, v2_pumpstation, node_mapping, flowlines, v2_pipe,
           v2_weir, res_views, calculate_stats, map_layers, pipe_stats, weir_stats, session, run_nr, prev_run, call, pc, i,
           prev_timestamp,
           manhole_idx, manhole_surface_level, agg_h_max, h_max, t_water_surface,
           qcum, qcum_pos, qcum_neg, agg_q_cum, agg_q_cum_pos, agg_q_cum_neg,
           qmax, vmax, dh_max, hmax_start, hmax_end,
           q_cum, pump_agg_q_cum, q_max,
           manhole_stats, flowline_stats, pumpline_stats, stat_source >>

inputVars == << ds, v2_manhole, v2_pumpstation, node_mapping, flowlines,
               v2_pipe, v2_weir >>

otherVars == << pipe_stats, weir_stats, run_nr, prev_run, call >>

runVars == << res_views, calculate_stats, map_layers >>

storeVars == << manhole_stats, flowline_stats, pipe_stats, weir_stats,
                pumpline_stats, stat_source >>

manholeVars == << manhole_idx, manhole_surface_level, agg_h_max, h_max,
                  t_water_surface >>

flowVars == << qcum, qcum_pos, qcum_neg, agg_q_cum, agg_q_cum_pos, agg_q_cum_neg,
               qmax, vmax, dh_max, hmax_start, hmax_end >>

pumpVars == << q_cum, pump_agg_q_cum, q_max >>

(***************************************************************************)
(* Bounds of the model.                                                    *)
(***************************************************************************)
MaxSteps == 3       \* longest time axis
MaxTime == 3        \* largest timestamp, seconds

(***************************************************************************)
(* Values.                                                                 *)
(***************************************************************************)
Null == [tag |-> "null"]
Inf == [tag |-> "inf"]
NaN == [tag |-> "nan"]
Num(v) == [tag |-> "num", v |-> v]
IsNum(x) == x.tag = "num"

Abs(x) == IF x < 0 THEN -x ELSE x

MaximumLast(a, b) == b

\* np.maximum, elementwise
Maximum(a, b) == IF a >= b THEN a ELSE b

Minimum(a, b) == IF a <= b THEN a ELSE b

SetMax(S) == CHOOSE m \in S : \A x \in S : m >= x

\* round(a / b) for b # 0, halves away from zero (Python 2's round)
RoundDiv(a, b) ==
    LET s == IF (a < 0) = (b < 0) THEN 1 ELSE -1
        aa == Abs(a)
        bb == Abs(b)
    IN  s * ((2 * aa + bb) \div (2 * bb))

\* the 0-based position that index k addresses in an array of n elements as
\* Python and numpy resolve it: k < 0 counts from the end
Position(n, k) == IF k < 0 THEN n + k ELSE k

\* seq[k] as Python evaluates it
PyIndex(seq, k) == seq[Position(Len(seq), k) + 1]

\* the time-step number iteration k of a time loop passes to
\* get_values_by_timestep_nr
TimestepNr(k) == k - 1

\* a sample of the result file: the stored data and its mask
Sample(v) == [val |-> v, mask |-> FALSE]

\* value the accumulators start from and a dry cell carries under its mask
NoDataLevel == -9999

Masked == [val |-> NoDataLevel, mask |-> TRUE]

Range(f) == {f[x] : x \in DOMAIN f}

Indices(seq) == 0 .. (Len(seq) - 1)

\* ds.get_values_by_timestep_nr(variable, timestamp_idx)
GetValuesByTimestepNr(variable, timestamp_idx) ==
    PyIndex(ds[variable], timestamp_idx)

\* np.take(a, idx) / get_values_by_timestep_nr(..., index=idx)
Take(a, idx) == [j \in DOMAIN idx |-> a[idx[j]]]

\* np.asarray(h): the data of a masked array
AsArray(h) == [j \in DOMAIN h |-> h[j].val]

nTimestamps == Len(ds.timestamps)

LastTimestamp == PyIndex(ds.timestamps, -1)

TimestepNoPrev(timestamp, prev) == timestamp

\* timestep = timestamp - prev_timestamp
Timestep(timestamp, prev) == timestamp - prev

(***************************************************************************)
(* Provenance: set_stat_source.                                            *)
(***************************************************************************)
StatSource(table, field, from_agg, input_param, timestep) ==
    [table |-> table, field |-> field, from_agg |-> from_agg,
     input_param |-> input_param, timestep |-> timestep]

SetStatSourceAdd(rows, table, field, from_aggregated, input_param, timestep) ==
    Append(rows, StatSource(table, field, from_aggregated, input_param, timestep))

SetStatSourceKeepTimestep(rows, table, field, from_aggregated, input_param, timestep) ==
    LET found == {k \in 1 .. Len(rows) :
                    rows[k].table = table /\ rows[k].field = field}
    IN  IF found # {}
        THEN LET first == CHOOSE k \in found : \A m \in found : k <= m
             IN  [rows EXCEPT ![first].from_agg = from_aggregated,
                              ![first].input_param = input_param,
                              ![first].timestep =
                                  IF timestep = Null THEN @ ELSE timestep]
        ELSE Append(rows, StatSource(table, field, from_aggregated,
                                     input_param, timestep))

\* instance = query(StatSource).filter(table, field).first(); update or add
SetStatSource(rows, table, field, from_aggregated, input_param, timestep) ==
    LET found == {k \in 1 .. Len(rows) :
                    rows[k].table = table /\ rows[k].field = field}
    IN  IF found # {}
        THEN LET first == CHOOSE k \in found : \A m \in found : k <= m
             IN  [rows EXCEPT ![first].from_agg = from_aggregated,
                              ![first].input_param = input_param,
                              ![first].timestep = timestep]
        ELSE Append(rows, StatSource(table, field, from_aggregated,
                                     input_param, timestep))

\* a sequence of set_stat_source calls, in program order
RECURSIVE SetStatSources(_, _)
SetStatSources(rows, calls) ==
    IF calls = << >> THEN rows
    ELSE LET c == Head(calls)
         IN  SetStatSources(
                 SetStatSource(rows, c[1], c[2], c[3], c[4], c[5]),
                 Tail(calls))

\* avg_timestep = int(timestamps[-1] / (len(timestamps) - 1)); the division
\* by zero of a one-step time axis ends in an exception of int()
AvgTimestepDefined == nTimestamps - 1 # 0

AvgTimestep == LastTimestamp \div (nTimestamps - 1)

(***************************************************************************)
(* The result database session: execute(delete), bulk_save_objects, commit *)
(***************************************************************************)
\* a session of db.get_session() before its first statement
NoSession == [table |-> "none", rows |-> << >>, objects |-> << >>, next |-> "none"]

TransactionNoDelete(table, objects, next) ==
    [table |-> table,
     rows |-> CASE table = "manhole_stats" -> manhole_stats
                [] table = "flowline_stats" -> flowline_stats
                [] table = "pipe_stats" -> pipe_stats
                [] table = "weir_stats" -> weir_stats
                [] OTHER -> pumpline_stats,
     objects |-> objects, next |-> next]

\* the session after execute("Delete from <table>"): the table is empty in
\* the session, the objects of the list wait for bulk_save_objects, and run()
\* goes on at next after the commit
Transaction(table, objects, next) ==
    [table |-> table, rows |-> << >>, objects |-> objects, next |-> next]

AfterDeleteCommitted(rows) == << >>

\* the committed rows of a table after the delete statement of the session:
\* no commit stands between the delete and the bulk save
AfterDelete(rows) == rows

\* res_session.bulk_save_objects(list)
BulkSaveObjects ==
    /\ pc = "bulk_save"
    /\ session' = [session EXCEPT !.rows = session.rows \o session.objects]
    /\ pc' = "commit"
    /\ UNCHANGED << inputVars, runVars, otherVars, i, prev_timestamp, manholeVars, flowVars,
                    pumpVars, manhole_stats, flowline_stats, pumpline_stats,
                    stat_source >>

Committed(table, rows) == IF session.table = table THEN session.rows ELSE rows

\* res_session.commit(): the rows of the session become the table
Commit ==
    /\ pc = "commit"
    /\ manhole_stats' = Committed("manhole_stats", manhole_stats)
    /\ flowline_stats' = Committed("flowline_stats", flowline_stats)
    /\ pipe_stats' = Committed("pipe_stats", pipe_stats)
    /\ weir_stats' = Committed("weir_stats", weir_stats)
    /\ pumpline_stats' = Committed("pumpline_stats", pumpline_stats)
    /\ session' = NoSession
    /\ pc' = session.next
    /\ UNCHANGED << inputVars, runVars, run_nr, prev_run, call, i, prev_timestamp,
                    manholeVars, flowVars, pumpVars, stat_source >>

\* a statement of the open transaction raises (write error): the exception
\* leaves run() and the session is discarded without a commit
WriteFail ==
    /\ pc \in {"bulk_save", "commit"}
    /\ session' = NoSession
    /\ pc' = "failed"
    /\ UNCHANGED << inputVars, runVars, otherVars, i, prev_timestamp, manholeVars, flowVars,
                    pumpVars, manhole_stats, flowline_stats, pumpline_stats,
                    stat_source >>

NextSession ==
    \/ BulkSaveObjects
    \/ Commit
    \/ WriteFail

(***************************************************************************)
(* get_manhole_attributes_and_statistics                                   *)
(***************************************************************************)
\* the manholes of the first query that have a result node, in query order
MappedManholes ==
    SelectSeq(v2_manhole,
              LAMBDA m : m.connection_node_id \in DOMAIN node_mapping)

ManholeIdx ==
    [j \in Indices(MappedManholes) |->
        node_mapping[MappedManholes[j + 1].connection_node_id]]

ManholeSurfaceLevel ==
    [j \in Indices(MappedManholes) |-> MappedManholes[j + 1].surface_level]

\* h_max after the loop over the timestamps of the aggregate s1_max
RECURSIVE AggHMax(_, _)
AggHMax(k, idx) ==
    IF k = 0 THEN [j \in DOMAIN idx |-> NoDataLevel]
    ELSE LET prev == AggHMax(k - 1, idx)
             h_array == AsArray(Take(GetValuesByTimestepNr("s1_max", k - 1), idx))
         IN  [j \in DOMAIN idx |-> Maximum(prev[j], h_array[j])]

\* lines 201-252: index arrays, aggregate or empty h_max, zeroed duration
ManholeBegin ==
    /\ pc = "manhole_begin"
    /\ manhole_idx' = ManholeIdx
    /\ manhole_surface_level' = ManholeSurfaceLevel
    /\ agg_h_max' = ("s1_max" \in ds.available)
    /\ h_max' = IF "s1_max" \in ds.available
                THEN AggHMax(Len(ds.s1_max), ManholeIdx)
                ELSE [j \in DOMAIN ManholeIdx |-> NoDataLevel]
    /\ t_water_surface' = [j \in DOMAIN ManholeIdx |-> 0]
    /\ prev_timestamp' = 0
    /\ i' = 0
    /\ pc' = "manhole_loop"
    /\ UNCHANGED << inputVars, runVars, otherVars, session, flowVars, pumpVars, manhole_stats,
                    flowline_stats, pumpline_stats, stat_source >>

\* h >= manhole_surface_level as a boolean index: the comparison of an
\* unmasked sample; for a masked sample numpy leaves the data under the mask
\* of the result unspecified, so either outcome can be selected
OnSurface(h, level, choice) ==
    [j \in DOMAIN h |->
        IF h[j].mask THEN choice[j] ELSE h[j].val >= level[j]]

\* lines 256-273: one iteration of the time loop
ManholeStep ==
    /\ pc = "manhole_loop"
    /\ i < nTimestamps
    /\ LET timestamp == PyIndex(ds.timestamps, i)
           timestep == Timestep(timestamp, prev_timestamp)
           h == Take(GetValuesByTimestepNr("s1", TimestepNr(i)), manhole_idx)
           h_array == AsArray(h)
       IN  /\ prev_timestamp' = timestamp
           /\ h_max' = IF ~agg_h_max
                       THEN [j \in DOMAIN h_max |-> Maximum(h_max[j], h_array[j])]
                       ELSE h_max
           /\ \E choice \in [DOMAIN h -> BOOLEAN] :
                 /\ \A j \in DOMAIN h : ~h[j].mask => choice[j]
                 /\ t_water_surface' =
                        [j \in DOMAIN t_water_surface |->
                            IF OnSurface(h, manhole_surface_level, choice)[j]
                            THEN t_water_surface[j] + timestep
                            ELSE t_water_surface[j]]
    /\ i' = i + 1
    /\ UNCHANGED << inputVars, runVars, otherVars, session, pc, manhole_idx, manhole_surface_level, agg_h_max,
                    flowVars, pumpVars, manhole_stats, flowline_stats,
                    pumpline_stats, stat_source >>

\* round(100 * (level - bottom) / (surface - bottom), 1), in units of 0.1 %;
\* level is a numpy float, so a zero divisor gives inf or nan, not an exception
ManholeFilling(level, bottom_level, surface_level) ==
    LET num == 100 * (level - bottom_level)
        den == surface_level - bottom_level
    IN  IF den = 0 THEN (IF num = 0 THEN NaN ELSE Inf)
        ELSE Num(RoundDiv(10 * num, den))

WhereIsIdx(arr, idx) == idx

\* position of idx in manhole_idx: int(np.where(manhole_idx == idx)[0][0])
Where(arr, idx) ==
    CHOOSE j \in DOMAIN arr :
        /\ arr[j] = idx
        /\ \A m \in DOMAIN arr : arr[m] = idx => j <= m

\* lines 294-311
ManholeStats(manhole, h_end) ==
    LET idx == node_mapping[manhole.connection_node_id]
        ri == Where(manhole_idx, idx)
    IN  [id |-> idx,
         bottom_level |-> manhole.bottom_level,
         surface_level |-> manhole.surface_level,
         duration_water_on_surface |-> RoundDiv(t_water_surface[ri] * 1000, 3600),
         max_waterlevel |-> h_max[ri],
         end_waterlevel |-> h_end[ri],
         max_waterdepth_surface |-> h_max[ri] - manhole.surface_level,
         max_filling |-> ManholeFilling(h_max[ri], manhole.bottom_level,
                                        manhole.surface_level),
         end_filling |-> ManholeFilling(h_end[ri], manhole.bottom_level,
                                        manhole.surface_level)]

\* the manholes of the second query (joined with their pipes) that are mapped
ManholesWithPipe ==
    SelectSeq(v2_manhole,
              LAMBDA m : m.has_pipe /\ m.connection_node_id \in DOMAIN node_mapping)

\* lines 275-312: the end levels and the list of rows
ManholeRows ==
    LET h_end == AsArray(Take(GetValuesByTimestepNr("s1", nTimestamps - 1),
                              manhole_idx))
    IN  [k \in 1 .. Len(ManholesWithPipe) |->
            ManholeStats(ManholesWithPipe[k], h_end)]

\* lines 275-319: end levels, the rows, delete + bulk insert + commit
ManholeSave ==
    /\ pc = "manhole_loop"
    /\ i = nTimestamps
    /\ session' = Transaction("manhole_stats", ManholeRows, "manhole_sources")
    /\ manhole_stats' = AfterDelete(manhole_stats)
    /\ pc' = "bulk_save"
    /\ UNCHANGED << inputVars, runVars, otherVars, i, prev_timestamp, manholeVars, flowVars,
                    pumpVars, flowline_stats, pumpline_stats, stat_source >>

ManholeSourceCalls ==
    << <<"manhole_stats", "duration_water_on_surface", FALSE, "s1", Num(AvgTimestep)>>,
       <<"manhole_stats", "end_waterlevel", FALSE, "s1", Num(AvgTimestep)>>,
       <<"manhole_stats", "end_filling", FALSE, "s1", Num(AvgTimestep)>> >>
    \o (IF agg_h_max
        THEN << <<"manhole_stats", "max_waterlevel", TRUE, "s1_max", Null>>,
                <<"manhole_stats", "max_waterdepth_surface", TRUE, "s1_max", Null>>,
                <<"manhole_stats", "max_filling", TRUE, "s1_max", Null>> >>
        ELSE << <<"manhole_stats", "max_waterlevel", FALSE, "s1", Num(AvgTimestep)>>,
                <<"manhole_stats", "max_waterdepth_surface", FALSE, "s1", Num(AvgTimestep)>>,
                <<"manhole_stats", "max_filling", FALSE, "s1", Num(AvgTimestep)>> >>)

\* lines 321-336: the provenance rows of the manhole table
ManholeSources ==
    /\ pc = "manhole_sources"
    /\ AvgTimestepDefined
    /\ stat_source' = SetStatSources(stat_source, ManholeSourceCalls)
    /\ pc' = "flowline_begin"
    /\ UNCHANGED << inputVars, runVars, otherVars, session, i, prev_timestamp, manholeVars, flowVars, pumpVars,
                    manhole_stats, flowline_stats, pumpline_stats >>

\* line 322 with a single timestamp: the exception ends the run
ManholeSourcesFail ==
    /\ pc = "manhole_sources"
    /\ ~AvgTimestepDefined
    /\ pc' = "failed"
    /\ UNCHANGED << inputVars, runVars, otherVars, session, i, prev_timestamp, manholeVars, flowVars, pumpVars,
                    manhole_stats, flowline_stats, pumpline_stats, stat_source >>

NextManhole ==
    \/ ManholeBegin
    \/ ManholeStep
    \/ ManholeSave
    \/ ManholeSources
    \/ ManholeSourcesFail

(***************************************************************************)
(* calc_flowline_statistics                                                *)
(***************************************************************************)
Zeros(n) == [j \in 0 .. (n - 1) |-> 0]

Full(n, v) == [j \in 0 .. (n - 1) |-> v]

GetAggCumOnStored(parameter_name) ==
    IF parameter_name \in ds.available
    THEN [result |-> GetValuesByTimestepNr(parameter_name,
                                           Len(ds[parameter_name]) - 1),
          agg_cum |-> TRUE]
    ELSE [result |-> IF Len(flowline_stats) = ds.nFlowLine
                     THEN [j \in 0 .. (ds.nFlowLine - 1) |->
                              flowline_stats[j + 1].cum_discharge]
                     ELSE Zeros(ds.nFlowLine),
          agg_cum |-> FALSE]

\* get_agg_cum_if_available(parameter_name): the last value of the aggregate
\* when the source has the variable, else zeros of the flowline count
GetAggCumIfAvailable(parameter_name) ==
    IF parameter_name \in ds.available
    THEN [result |-> GetValuesByTimestepNr(parameter_name,
                                           Len(ds[parameter_name]) - 1),
          agg_cum |-> TRUE]
    ELSE [result |-> Zeros(ds.nFlowLine), agg_cum |-> FALSE]

StartIdx == [j \in Indices(flowlines) |-> flowlines[j + 1].start_node_idx]

EndIdx == [j \in Indices(flowlines) |-> flowlines[j + 1].end_node_idx]

\* lines 374-398
FlowlineBegin ==
    /\ pc = "flowline_begin"
    /\ qcum' = GetAggCumIfAvailable("q_cum").result
    /\ agg_q_cum' = GetAggCumIfAvailable("q_cum").agg_cum
    /\ qcum_pos' = GetAggCumIfAvailable("q_cum_positive").result
    /\ agg_q_cum_pos' = GetAggCumIfAvailable("q_cum_positive").agg_cum
    /\ qcum_neg' = GetAggCumIfAvailable("q_cum_negative").result
    /\ agg_q_cum_neg' = GetAggCumIfAvailable("q_cum_negative").agg_cum
    /\ qmax' = Zeros(ds.nFlowLine)
    /\ vmax' = Zeros(ds.nFlowLine)
    /\ dh_max' = Zeros(ds.nFlowLine)
    /\ hmax_start' = Full(ds.nFlowLine, NoDataLevel)
    /\ hmax_end' = Full(ds.nFlowLine, NoDataLevel)
    /\ prev_timestamp' = 0
    /\ i' = 0
    /\ pc' = "flowline_loop"
    /\ UNCHANGED << inputVars, runVars, otherVars, session, manholeVars, pumpVars, manhole_stats,
                    flowline_stats, pumpline_stats, stat_source >>

\* q.clip(min=0) and q.clip(max=0)
ClipMin0(x) == Maximum(x, 0)

ClipMax0(x) == Minimum(x, 0)

\* qcum += q * timestep
QcumStep(acc, x, timestep) == acc + x * timestep

\* qcum_pos += q.clip(min=0) * timestep
QcumPosStep(acc, x, timestep) == acc + ClipMin0(x) * timestep

QcumNegStepAdd(acc, x, timestep) == acc + ClipMax0(x) * timestep

\* qcum_neg -= q.clip(max=0) * timestep
QcumNegStep(acc, x, timestep) == acc - ClipMax0(x) * timestep

HeadUnmaskedStartOnly(h_start, h_end) == ~h_start.mask

\* where=np.logical_not(np.logical_or(h_start.mask, h_end.mask))
HeadUnmasked(h_start, h_end) == ~(h_start.mask \/ h_end.mask)

\* lines 399-429: one iteration of the time loop
FlowlineStep ==
    /\ pc = "flowline_loop"
    /\ i < nTimestamps
    /\ LET timestamp == PyIndex(ds.timestamps, i)
           timestep == Timestep(timestamp, prev_timestamp)
           q == GetValuesByTimestepNr("q", TimestepNr(i))
           v == GetValuesByTimestepNr("u1", TimestepNr(i))
           h == GetValuesByTimestepNr("s1", TimestepNr(i))
           h_start == Take(h, StartIdx)
           h_end == Take(h, EndIdx)
       IN  /\ prev_timestamp' = timestamp
           /\ qcum' = IF ~agg_q_cum
                      THEN [j \in DOMAIN qcum |-> QcumStep(qcum[j], q[j], timestep)]
                      ELSE qcum
           /\ qcum_pos' = IF ~agg_q_cum_pos
                          THEN [j \in DOMAIN qcum_pos |->
                                    QcumPosStep(qcum_pos[j], q[j], timestep)]
                          ELSE qcum_pos
           /\ qcum_neg' = IF ~agg_q_cum_neg
                          THEN [j \in DOMAIN qcum_neg |->
                                    QcumNegStep(qcum_neg[j], q[j], timestep)]
                          ELSE qcum_neg
           /\ qmax' = [j \in DOMAIN qmax |-> Maximum(qmax[j], Abs(q[j]))]
           /\ vmax' = [j \in DOMAIN vmax |-> Maximum(vmax[j], Abs(v[j]))]
           /\ dh_max' = [j \in DOMAIN dh_max |->
                            IF HeadUnmasked(h_start[j], h_end[j])
                            THEN Maximum(dh_max[j],
                                         Abs(h_start[j].val - h_end[j].val))
                            ELSE dh_max[j]]
           /\ hmax_start' = [j \in DOMAIN hmax_start |->
                                Maximum(hmax_start[j], h_start[j].val)]
           /\ hmax_end' = [j \in DOMAIN hmax_end |->
                              Maximum(hmax_end[j], h_end[j].val)]
    /\ i' = i + 1
    /\ UNCHANGED << inputVars, runVars, otherVars, session, pc, agg_q_cum, agg_q_cum_pos, agg_q_cum_neg,
                    manholeVars, pumpVars, manhole_stats, flowline_stats,
                    pumpline_stats, stat_source >>

\* lines 444-459: the row of the flowline at position j of the query
FlowlineStats(j, qend, vend, hend_start, hend_end) ==
    [id |-> flowlines[j + 1].id,
     cum_discharge |-> qcum[j],
     cum_discharge_positive |-> qcum_pos[j],
     cum_discharge_negative |-> qcum_neg[j],
     max_discharge |-> qmax[j],
     end_discharge |-> qend[j],
     max_velocity |-> vmax[j],
     end_velocity |-> vend[j],
     max_waterlevel_head |-> dh_max[j],
     max_waterlevel_start |-> hmax_start[j],
     max_waterlevel_end |-> hmax_end[j],
     end_waterlevel_start |-> hend_start[j].val,
     end_waterlevel_end |-> hend_end[j].val,
     abs_length |-> flowlines[j + 1].abs_length]

\* lines 431-460: the end values and the list of rows
FlowlineRows ==
    LET qend == GetValuesByTimestepNr("q", nTimestamps - 1)
        vend == GetValuesByTimestepNr("u1", nTimestamps - 1)
        h_last_ts == GetValuesByTimestepNr("s1", nTimestamps - 1)
        hend_start == Take(h_last_ts, StartIdx)
        hend_end == Take(h_last_ts, EndIdx)
    IN  [k \in 1 .. Len(flowlines) |->
            FlowlineStats(k - 1, qend, vend, hend_start, hend_end)]

\* lines 431-467: end values, the rows, delete + bulk insert + commit
FlowlineSave ==
    /\ pc = "flowline_loop"
    /\ i = nTimestamps
    /\ session' = Transaction("flowline_stats", FlowlineRows, "flowline_sources")
    /\ flowline_stats' = AfterDelete(flowline_stats)
    /\ pc' = "bulk_save"
    /\ UNCHANGED << inputVars, runVars, otherVars, i, prev_timestamp, manholeVars, flowVars,
                    pumpVars, manhole_stats, pumpline_stats, stat_source >>

\* the two set_stat_source calls of one cumulative discharge (lines 490-515)
CumSourceCalls(agg, agg_param, flow_field, weir_field) ==
    IF agg
    THEN << <<"flowline_stats", flow_field, TRUE, agg_param, Null>>,
            <<"weir_stats", weir_field, TRUE, agg_param, Null>> >>
    ELSE << <<"flowline_stats", flow_field, FALSE, "q", Num(AvgTimestep)>>,
            <<"weir_stats", weir_field, FALSE, "q", Num(AvgTimestep)>> >>

FlowlineSourceCalls ==
    << <<"flowline_stats", "max_discharge", FALSE, "q", Num(AvgTimestep)>>,
       <<"flowline_stats", "end_discharge", FALSE, "q", Num(AvgTimestep)>>,
       <<"flowline_stats", "max_velocity", FALSE, "u1", Num(AvgTimestep)>>,
       <<"flowline_stats", "end_velocity", FALSE, "u1", Num(AvgTimestep)>>,
       <<"flowline_stats", "max_waterlevel_head", FALSE, "s1", Num(AvgTimestep)>>,
       <<"flowline_stats", "max_waterlevel_start", FALSE, "s1", Num(AvgTimestep)>>,
       <<"flowline_stats", "max_waterlevel_end", FALSE, "s1", Num(AvgTimestep)>>,
       <<"flowline_stats", "end_waterlevel_start", FALSE, "s1", Num(AvgTimestep)>>,
       <<"flowline_stats", "end_waterlevel_end", FALSE, "s1", Num(AvgTimestep)>>,
       <<"pipe_stats", "max_filling", FALSE, "s1", Num(AvgTimestep)>>,
       <<"pipe_stats", "end_filling", FALSE, "s1", Num(AvgTimestep)>>,
       <<"pipe_stats", "max_hydro_gradient", FALSE, "s1", Num(AvgTimestep)>>,
       <<"weir_stats", "max_overfall_height", FALSE, "s1", Num(AvgTimestep)>> >>
    \o CumSourceCalls(agg_q_cum, "q_cum", "cum_discharge", "perc_volume")
    \o CumSourceCalls(agg_q_cum_pos, "q_cum_pos", "cum_discharge_positive",
                      "perc_volume_positive")
    \o CumSourceCalls(agg_q_cum_neg, "q_cum_neg", "cum_discharge_negative",
                      "perc_volume_negative")

\* lines 469-515: the provenance rows of the flowline, pipe and weir tables
FlowlineSources ==
    /\ pc = "flowline_sources"
    /\ AvgTimestepDefined
    /\ stat_source' = SetStatSources(stat_source, FlowlineSourceCalls)
    /\ pc' = "pipe_and_weir"
    /\ UNCHANGED << inputVars, runVars, otherVars, session, i, prev_timestamp, manholeVars, flowVars, pumpVars,
                    manhole_stats, flowline_stats, pumpline_stats >>

\* line 470 with a single timestamp: the exception ends the run
FlowlineSourcesFail ==
    /\ pc = "flowline_sources"
    /\ ~AvgTimestepDefined
    /\ pc' = "failed"
    /\ UNCHANGED << inputVars, runVars, otherVars, session, i, prev_timestamp, manholeVars, flowVars, pumpVars,
                    manhole_stats, flowline_stats, pumpline_stats, stat_source >>

NextFlowline ==
    \/ FlowlineBegin
    \/ FlowlineStep
    \/ FlowlineSave
    \/ FlowlineSources
    \/ FlowlineSourcesFail

(***************************************************************************)
(* get_pump_attributes_and_statistics                                      *)
(***************************************************************************)
nr_pumps == Len(v2_pumpstation)

\* lines 651-675
PumpBegin ==
    /\ pc = "pump_begin"
    /\ q_cum' = GetAggCumIfAvailable("q_pump_cum").result
    /\ pump_agg_q_cum' = GetAggCumIfAvailable("q_pump_cum").agg_cum
    /\ q_max' = Zeros(nr_pumps)
    /\ prev_timestamp' = 0
    /\ i' = 0
    /\ pc' = "pump_loop"
    /\ UNCHANGED << inputVars, runVars, otherVars, session, manholeVars, flowVars, manhole_stats,
                    flowline_stats, pumpline_stats, stat_source >>

\* q_cum += q_cum * timestep: the sample q does not enter the sum
PumpCumStep(acc, x, timestep) == acc + acc * timestep

\* lines 676-689: one iteration of the time loop
PumpStep ==
    /\ pc = "pump_loop"
    /\ i < nTimestamps
    /\ LET timestamp == PyIndex(ds.timestamps, i)
           timestep == Timestep(timestamp, prev_timestamp)
           q == GetValuesByTimestepNr("q_pump", TimestepNr(i))
       IN  /\ prev_timestamp' = timestamp
           /\ q_cum' = IF ~pump_agg_q_cum
                       THEN [j \in DOMAIN q_cum |->
                                PumpCumStep(q_cum[j], q[j], timestep)]
                       ELSE q_cum
           /\ q_max' = [j \in DOMAIN q_max |-> Maximum(q_max[j], q[j])]
    /\ i' = i + 1
    /\ UNCHANGED << inputVars, runVars, otherVars, session, pc, pump_agg_q_cum, manholeVars, flowVars,
                    manhole_stats, flowline_stats, pumpline_stats, stat_source >>

\* round(x / (capacity / 1000) / unit, digits): capacity is in l/s, x a numpy
\* float in m3/s, so a zero capacity gives inf or nan, not an exception
PerCapacity(x, capacity, unit, scale) ==
    IF capacity = 0 THEN (IF x = 0 THEN NaN ELSE Inf)
    ELSE Num(RoundDiv(scale * x, capacity * unit))

\* lines 701-713: the row of the pump at position j of the query
PumplineStats(j, q_end) ==
    LET pump == v2_pumpstation[j + 1]
    IN  [id |-> ds.id_mapping.v2_pumpstation[pump.id] - 1,
         spatialite_id |-> pump.id,
         capacity |-> pump.capacity,
         cum_discharge |-> q_cum[j],
         end_discharge |-> q_end[j],
         max_discharge |-> q_max[j],
         duration_pump_on_max |-> PerCapacity(q_cum[j], pump.capacity, 3600, 1000),
         perc_max_discharge |-> PerCapacity(q_max[j], pump.capacity, 1, 10000),
         perc_end_discharge |-> PerCapacity(q_end[j], pump.capacity, 1, 10000)]

\* lines 691-714: the end values and the list of rows
PumpRows ==
    LET q_end == GetValuesByTimestepNr("q_pump", nTimestamps - 1)
    IN  [k \in 1 .. nr_pumps |-> PumplineStats(k - 1, q_end)]

\* q_cum[i] exists for every pump of the query
PumpRowsDefined == \A j \in Indices(v2_pumpstation) : j \in DOMAIN q_cum

\* lines 691-721: end values, the rows, delete + bulk insert + commit
PumpSave ==
    /\ pc = "pump_loop"
    /\ i = nTimestamps
    /\ PumpRowsDefined
    /\ session' = Transaction("pumpline_stats", PumpRows, "pump_sources")
    /\ pumpline_stats' = AfterDelete(pumpline_stats)
    /\ pc' = "bulk_save"
    /\ UNCHANGED << inputVars, runVars, otherVars, i, prev_timestamp, manholeVars, flowVars,
                    pumpVars, manhole_stats, flowline_stats, stat_source >>

\* line 707 when the zeros of get_agg_cum_if_available, which have the length
\* of the flowline axis, are shorter than the pump table: IndexError
PumpSaveFail ==
    /\ pc = "pump_loop"
    /\ i = nTimestamps
    /\ ~PumpRowsDefined
    /\ pc' = "failed"
    /\ UNCHANGED << inputVars, runVars, otherVars, session, i, prev_timestamp, manholeVars, flowVars, pumpVars,
                    manhole_stats, flowline_stats, pumpline_stats, stat_source >>

PumpSourceCallsShort ==
    << <<"pumpline_stats", "end_discharge", FALSE, "q_pump", Num(AvgTimestep)>>,
       <<"pumpline_stats", "max_discharge", FALSE, "q_pump", Num(AvgTimestep)>>,
       <<"pumpline_stats", "perc_end_discharge", FALSE, "q_pump", Num(AvgTimestep)>>,
       <<"pumpline_stats", "cum_discharge", pump_agg_q_cum, "q_pump",
         IF pump_agg_q_cum THEN Null ELSE Num(AvgTimestep)>>,
       <<"pumpline_stats", "duration_pump_on_max", pump_agg_q_cum, "q_pump",
         IF pump_agg_q_cum THEN Null ELSE Num(AvgTimestep)>> >>

PumpSourceCalls ==
    << <<"pumpline_stats", "end_discharge", FALSE, "q_pump", Num(AvgTimestep)>>,
       <<"pumpline_stats", "max_discharge", FALSE, "q_pump", Num(AvgTimestep)>>,
       <<"pumpline_stats", "perc_end_discharge", FALSE, "q_pump", Num(AvgTimestep)>> >>
    \o (IF pump_agg_q_cum
        THEN << <<"pumpline_stats", "cum_discharge", TRUE, "q_pump_cum", Null>>,
                <<"pumpline_stats", "duration_pump_on_max", TRUE, "q_pump_cum", Null>>,
                <<"pumpline_stats", "perc_max_discharge", TRUE, "q_pump_cum", Null>> >>
        ELSE << <<"pumpline_stats", "cum_discharge", FALSE, "q_pump", Num(AvgTimestep)>>,
                <<"pumpline_stats", "duration_pump_on_max", FALSE, "q_pump",
                  Num(AvgTimestep)>>,
                <<"pumpline_stats", "perc_max_discharge", FALSE, "q_pump",
                  Num(AvgTimestep)>> >>)

\* lines 723-739: the provenance rows of the pump table
PumpSources ==
    /\ pc = "pump_sources"
    /\ AvgTimestepDefined
    /\ stat_source' = SetStatSources(stat_source, PumpSourceCalls)
    /\ pc' = "done"
    /\ UNCHANGED << inputVars, runVars, otherVars, session, i, prev_timestamp, manholeVars, flowVars, pumpVars,
                    manhole_stats, flowline_stats, pumpline_stats >>

\* line 724 with a single timestamp: the exception ends the run
PumpSourcesFail ==
    /\ pc = "pump_sources"
    /\ ~AvgTimestepDefined
    /\ pc' = "failed"
    /\ UNCHANGED << inputVars, runVars, otherVars, session, i, prev_timestamp, manholeVars, flowVars, pumpVars,
                    manhole_stats, flowline_stats, pumpline_stats, stat_source >>

NextPump ==
    \/ PumpBegin
    \/ PumpStep
    \/ PumpSave
    \/ PumpSaveFail
    \/ PumpSources
    \/ PumpSourcesFail

(***************************************************************************)
(* calc_pipe_and_weir_statistics                                           *)
(***************************************************************************)
Raise == [tag |-> "raise"]

\* get_filling: None when an input is None, else the mean of the two end
\* ratios, each clipped to [0, 1], as a percentage rounded to 3 decimals (in
\* units of 0.001 %); a profile height of zero raises ZeroDivisionError
get_filling_clip_average(start_level, end_level, start_invert_level, end_invert_level, profile_height) ==
    IF Null \in {start_level, end_level, start_invert_level, end_invert_level,
                 profile_height}
    THEN Null
    ELSE IF profile_height.v = 0 THEN Raise
    ELSE LET sgn == IF profile_height.v < 0 THEN -1 ELSE 1
             den == Abs(profile_height.v)
             fill == sgn * (start_level.v - start_invert_level.v)
                         + sgn * (end_level.v - end_invert_level.v)
         IN  Num(RoundDiv(100000 * Maximum(0, Minimum(2 * den, fill)), 2 * den))

get_filling(start_level, end_level, start_invert_level, end_invert_level, profile_height) ==
    IF Null \in {start_level, end_level, start_invert_level, end_invert_level,
                 profile_height}
    THEN Null
    ELSE IF profile_height.v = 0 THEN Raise
    ELSE LET sgn == IF profile_height.v < 0 THEN -1 ELSE 1
             den == Abs(profile_height.v)
             fill_start == Maximum(0, Minimum(den,
                               sgn * (start_level.v - start_invert_level.v)))
             fill_end == Maximum(0, Minimum(den,
                               sgn * (end_level.v - end_invert_level.v)))
         IN  Num(RoundDiv(100000 * (fill_start + fill_end), 2 * den))

\* pipes_mapping and weirs_mapping: Flowline.spatialite_id -> Flowline.id of
\* the flowlines of one type
FlowlineMapping(type) ==
    LET of_type == {k \in 1 .. Len(flowlines) : flowlines[k].type = type}
    IN  [sid \in {flowlines[k].spatialite_id : k \in of_type} |->
            flowlines[SetMax({k \in of_type :
                                 flowlines[k].spatialite_id = sid})].id]

pipes_mapping == FlowlineMapping("v2_pipe")

weirs_mapping == FlowlineMapping("v2_weir")

\* lines 541-546: the profile height from the shape and the size columns
ProfileHeight(pipe) ==
    IF pipe.shape \in {1, 2} /\ pipe.width # Null THEN pipe.width
    ELSE IF pipe.shape \in {5, 6} /\ pipe.height # Null THEN pipe.height
    ELSE Null

\* a PipeStats row as line 548 builds it; the derived fields are not set
PipeStatsKeepGradient(pipe) ==
    LET stored == {k \in DOMAIN pipe_stats :
                      pipe_stats[k].id = pipes_mapping[pipe.id]}
    IN  [id |-> pipes_mapping[pipe.id],
         invert_level_start |-> pipe.invert_level_start_point,
         invert_level_end |-> pipe.invert_level_end_point,
         profile_height |-> ProfileHeight(pipe),
         max_hydro_gradient |->
             IF stored = {} THEN Null
             ELSE pipe_stats[CHOOSE k \in stored : TRUE].max_hydro_gradient,
         max_filling |-> Null,
         end_filling |-> Null]

PipeStats(pipe) ==
    [id |-> pipes_mapping[pipe.id],
     invert_level_start |-> pipe.invert_level_start_point,
     invert_level_end |-> pipe.invert_level_end_point,
     profile_height |-> ProfileHeight(pipe),
     max_hydro_gradient |-> Null,
     max_filling |-> Null,
     end_filling |-> Null]

PipeRows == [k \in 1 .. Len(v2_pipe) |-> PipeStats(v2_pipe[k])]

\* lines 529-564: the rows of all pipes, delete + bulk insert + commit
PipeSave ==
    /\ pc = "pipe_and_weir"
    /\ \A k \in 1 .. Len(v2_pipe) : v2_pipe[k].id \in DOMAIN pipes_mapping
    /\ session' = Transaction("pipe_stats", PipeRows, "weir_save")
    /\ pipe_stats' = AfterDelete(pipe_stats)
    /\ pc' = "bulk_save"
    /\ UNCHANGED << inputVars, runVars, weir_stats, run_nr, prev_run, call, i,
                    prev_timestamp, manholeVars, flowVars, pumpVars,
                    manhole_stats, flowline_stats, pumpline_stats, stat_source >>

\* line 540 for a pipe without a flowline: the warning of line 538 is followed
\* by pipes_mapping[pipe.id], a KeyError that ends the run
PipeSaveFail ==
    /\ pc = "pipe_and_weir"
    /\ \E k \in 1 .. Len(v2_pipe) : v2_pipe[k].id \notin DOMAIN pipes_mapping
    /\ pc' = "failed"
    /\ UNCHANGED << inputVars, runVars, otherVars, session, i, prev_timestamp, manholeVars,
                    flowVars, pumpVars, manhole_stats, flowline_stats,
                    pumpline_stats, stat_source >>

\* a WeirStats row as line 576 builds it; the derived fields are not set
WeirStats(weir) ==
    [id |-> weirs_mapping[weir.id],
     crest_level |-> weir.crest_level,
     perc_volume |-> Null,
     perc_volume_positive |-> Null,
     perc_volume_negative |-> Null,
     max_overfall_height |-> Null]

WeirRows == [k \in 1 .. Len(v2_weir) |-> WeirStats(v2_weir[k])]

\* lines 566-589: the rows of all weirs, delete + bulk insert + commit
WeirSave ==
    /\ pc = "weir_save"
    /\ \A k \in 1 .. Len(v2_weir) : v2_weir[k].id \in DOMAIN weirs_mapping
    /\ session' = Transaction("weir_stats", WeirRows, "pipe_update")
    /\ weir_stats' = AfterDelete(weir_stats)
    /\ pc' = "bulk_save"
    /\ UNCHANGED << inputVars, runVars, pipe_stats, run_nr, prev_run, call, i,
                    prev_timestamp, manholeVars, flowVars, pumpVars,
                    manhole_stats, flowline_stats, pumpline_stats, stat_source >>

\* line 574 for a weir without a flowline: KeyError
WeirSaveFail ==
    /\ pc = "weir_save"
    /\ \E k \in 1 .. Len(v2_weir) : v2_weir[k].id \notin DOMAIN weirs_mapping
    /\ pc' = "failed"
    /\ UNCHANGED << inputVars, runVars, otherVars, session, i, prev_timestamp, manholeVars,
                    flowVars, pumpVars, manhole_stats, flowline_stats,
                    pumpline_stats, stat_source >>

\* the FlowlineStats row joined to a pipe or weir row: the same id
StatsOf(id) ==
    flowline_stats[CHOOSE k \in 1 .. Len(flowline_stats) :
                       flowline_stats[k].id = id]

\* the rows of a query(...).join(Flowline).join(FlowlineStats)
Joined(rows) ==
    {k \in 1 .. Len(rows) :
        /\ \E f \in 1 .. Len(flowlines) : flowlines[f].id = rows[k].id
        /\ \E f \in 1 .. Len(flowline_stats) : flowline_stats[f].id = rows[k].id}

\* lines 605-608: round(100 * (head / abs_length), 3), in units of 0.001 %;
\* the field keeps its value when the condition fails
MaxHydroGradient(pipe) ==
    LET stats == StatsOf(pipe.id)
    IN  IF stats.abs_length > 0
        THEN Num(RoundDiv(100000 * stats.max_waterlevel_head, stats.abs_length))
        ELSE pipe.max_hydro_gradient

\* lines 605-623 for one pipe row
PipeDerived(pipe) ==
    LET stats == StatsOf(pipe.id)
    IN  [pipe EXCEPT
            !.max_hydro_gradient = MaxHydroGradient(pipe),
            !.max_filling = get_filling(Num(stats.max_waterlevel_start),
                                Num(stats.max_waterlevel_end),
                                pipe.invert_level_start, pipe.invert_level_end,
                                pipe.profile_height),
            !.end_filling = get_filling(Num(stats.end_waterlevel_start),
                                Num(stats.end_waterlevel_end),
                                pipe.invert_level_start, pipe.invert_level_end,
                                pipe.profile_height)]

PipesDerived ==
    [k \in 1 .. Len(pipe_stats) |->
        IF k \in Joined(pipe_stats) THEN PipeDerived(pipe_stats[k])
        ELSE pipe_stats[k]]

Raises(row, fields) == \E f \in fields : row[f] = Raise

PipeDerivedFields == {"max_hydro_gradient", "max_filling", "end_filling"}

WeirDerivedFields ==
    {"perc_volume", "perc_volume_positive", "perc_volume_negative",
     "max_overfall_height"}

\* lines 604-625: the derived fields of every pipe row, then the commit
PipeUpdate ==
    /\ pc = "pipe_update"
    /\ \A k \in 1 .. Len(pipe_stats) : ~Raises(PipesDerived[k], PipeDerivedFields)
    /\ session' = [table |-> "pipe_stats", rows |-> PipesDerived,
                   objects |-> << >>, next |-> "weir_update"]
    /\ pc' = "commit"
    /\ UNCHANGED << inputVars, runVars, otherVars, i, prev_timestamp, manholeVars, flowVars,
                    pumpVars, manhole_stats, flowline_stats, pumpline_stats,
                    stat_source >>

\* get_filling divides by a profile height of zero: ZeroDivisionError
PipeUpdateFail ==
    /\ pc = "pipe_update"
    /\ \E k \in 1 .. Len(pipe_stats) : Raises(PipesDerived[k], PipeDerivedFields)
    /\ pc' = "failed"
    /\ UNCHANGED << inputVars, runVars, otherVars, session, i, prev_timestamp, manholeVars,
                    flowVars, pumpVars, manhole_stats, flowline_stats,
                    pumpline_stats, stat_source >>

\* the FlowlineStats rows of the filter FlowlineStats.id == WeirStats.id
WeirFlowlineStats ==
    {k \in 1 .. Len(flowline_stats) :
        \E w \in 1 .. Len(weir_stats) : weir_stats[w].id = flowline_stats[k].id}

\* query(func.max(...)).scalar(): NULL over no rows
SqlMax(S) == IF S = {} THEN Null ELSE Num(SetMax(S))

max_cum_discharge ==
    SqlMax({Abs(flowline_stats[k].cum_discharge) : k \in WeirFlowlineStats})

max_cum_discharge_pos ==
    SqlMax({flowline_stats[k].cum_discharge_positive : k \in WeirFlowlineStats})

max_cum_discharge_neg ==
    SqlMax({flowline_stats[k].cum_discharge_negative : k \in WeirFlowlineStats})

\* round(100 * x / max, 2), in units of 0.01 %: a maximum of None is a
\* TypeError, a maximum of zero a ZeroDivisionError
PercVolume(x, maximum) ==
    IF maximum = Null THEN Raise
    ELSE IF maximum.v = 0 THEN Raise
    ELSE Num(RoundDiv(10000 * x, maximum.v))

\* round(max(start, end) - crest_level, 3): a crest level of None is a TypeError
MaxOverfallHeightStart(start, end, crest_level) ==
    IF crest_level = Null THEN Raise
    ELSE Num(start - crest_level.v)

MaxOverfallHeight(start, end, crest_level) ==
    IF crest_level = Null THEN Raise
    ELSE Num(Maximum(start, end) - crest_level.v)

\* lines 639-645 for one weir row
WeirDerived(weir) ==
    LET stats == StatsOf(weir.id)
    IN  [weir EXCEPT
            !.perc_volume = PercVolume(stats.cum_discharge, max_cum_discharge),
            !.perc_volume_positive =
                PercVolume(stats.cum_discharge_positive, max_cum_discharge_pos),
            !.perc_volume_negative =
                PercVolume(stats.cum_discharge_negative, max_cum_discharge_neg),
            !.max_overfall_height =
                MaxOverfallHeight(stats.max_waterlevel_start,
                                  stats.max_waterlevel_end, weir.crest_level)]

WeirsDerived ==
    [k \in 1 .. Len(weir_stats) |->
        IF k \in Joined(weir_stats) THEN WeirDerived(weir_stats[k])
        ELSE weir_stats[k]]

\* lines 627-647: the maxima over the weirs, the derived fields of every weir
\* row, then the commit
WeirUpdate ==
    /\ pc = "weir_update"
    /\ \A k \in 1 .. Len(weir_stats) : ~Raises(WeirsDerived[k], WeirDerivedFields)
    /\ session' = [table |-> "weir_stats", rows |-> WeirsDerived,
                   objects |-> << >>, next |-> "pump_begin"]
    /\ pc' = "commit"
    /\ UNCHANGED << inputVars, runVars, otherVars, i, prev_timestamp, manholeVars, flowVars,
                    pumpVars, manhole_stats, flowline_stats, pumpline_stats,
                    stat_source >>

\* a division by a maximum of zero or a crest level of None raises
WeirUpdateFail ==
    /\ pc = "weir_update"
    /\ \E k \in 1 .. Len(weir_stats) : Raises(WeirsDerived[k], WeirDerivedFields)
    /\ pc' = "failed"
    /\ UNCHANGED << inputVars, runVars, otherVars, session, i, prev_timestamp, manholeVars,
                    flowVars, pumpVars, manhole_stats, flowline_stats,
                    pumpline_stats, stat_source >>

NextPipeAndWeir ==
    \/ PipeSave
    \/ PipeSaveFail
    \/ WeirSave
    \/ WeirSaveFail
    \/ PipeUpdate
    \/ PipeUpdateFail
    \/ WeirUpdate
    \/ WeirUpdateFail

(***************************************************************************)
(* Inputs: bounded sets of result files and model databases.               *)
(***************************************************************************)
Nodes == {0, 1, 2}

LevelVals == {0, 1, 3}

\* the time axes: strictly increasing, non-negative, at least one timestamp
TimestampSeqs ==
    {ts \in UNION {[1 .. n -> 0 .. MaxTime] : n \in 1 .. MaxSteps} :
        \A k \in 1 .. (Len(ts) - 1) : ts[k] < ts[k + 1]}

ConstSeries(n, arr) == [k \in 1 .. n |-> arr]

DefaultS1(n) == ConstSeries(n, [nd \in Nodes |-> Sample(1)])

DefaultQ(n) == ConstSeries(n, Zeros(2))

DefaultQPump(n) == ConstSeries(n, Zeros(2))

\* the aggregates a result file may carry, each with its own time axis
AggS1Max == << [nd \in Nodes |-> Sample(2)], [nd \in Nodes |-> Sample(4 - nd)] >>

AggQCum == << [f \in {0, 1} |-> 7 + f] >>

AggQCumPositive == << [f \in {0, 1} |-> 9 + f] >>

AggQCumNegative == << [f \in {0, 1} |-> 2 + f] >>

AggQPumpCum == << [p \in {0, 1} |-> 5 + p] >>

DataSource(ts, avail, s1, q, u1, q_pump, nFlowLine) ==
    [timestamps |-> ts, available |-> avail, s1 |-> s1, q |-> q, u1 |-> u1,
     q_pump |-> q_pump, s1_max |-> AggS1Max, q_cum |-> AggQCum,
     q_cum_positive |-> AggQCumPositive, q_cum_negative |-> AggQCumNegative,
     q_pump_cum |-> AggQPumpCum, nFlowLine |-> nFlowLine,
     id_mapping |-> [v2_pumpstation |-> (1 :> 2 @@ 2 :> 1)]]

Manhole(id, connection_node_id, bottom_level, surface_level) ==
    [id |-> id, connection_node_id |-> connection_node_id,
     bottom_level |-> bottom_level, surface_level |-> surface_level,
     has_pipe |-> TRUE]

DefaultManholes == << Manhole(1, 11, 0, 2), Manhole(2, 12, 0, 2) >>

DefaultNodeMapping == (11 :> 1 @@ 12 :> 0)

DefaultFlowlines ==
    << [id |-> 0, type |-> "v2_pipe", spatialite_id |-> 1, start_node_idx |-> 0,
        end_node_idx |-> 1, abs_length |-> 10],
       [id |-> 1, type |-> "v2_weir", spatialite_id |-> 1, start_node_idx |-> 1,
        end_node_idx |-> 2, abs_length |-> 20] >>

DefaultPumps == << [id |-> 1, capacity |-> 1000], [id |-> 2, capacity |-> 2000] >>

DefaultPipes ==
    << [id |-> 1, invert_level_start_point |-> Num(0),
        invert_level_end_point |-> Num(0), shape |-> 2, width |-> Num(2),
        height |-> Null] >>

DefaultWeirs == << [id |-> 1, crest_level |-> Num(1)] >>

\* no run() came before
NoRun == [pc |-> "none"]

\* set_stat_source was not called
NoCall == << >>

\* the state of run() before the first statistic is computed
InitState ==
    /\ i = 0
    /\ prev_timestamp = 0
    /\ manhole_idx = << >>
    /\ manhole_surface_level = << >>
    /\ agg_h_max = FALSE
    /\ h_max = << >>
    /\ t_water_surface = << >>
    /\ qcum = << >> /\ qcum_pos = << >> /\ qcum_neg = << >>
    /\ agg_q_cum = FALSE /\ agg_q_cum_pos = FALSE /\ agg_q_cum_neg = FALSE
    /\ qmax = << >> /\ vmax = << >> /\ dh_max = << >>
    /\ hmax_start = << >> /\ hmax_end = << >>
    /\ q_cum = << >> /\ pump_agg_q_cum = FALSE /\ q_max = << >>
    /\ manhole_stats = << >>
    /\ flowline_stats = << >>
    /\ pumpline_stats = << >>
    /\ stat_source = << >>
    /\ pipe_stats = << >>
    /\ weir_stats = << >>
    /\ session = NoSession
    /\ run_nr = 1
    /\ prev_run = NoRun
    /\ call = NoCall
    /\ res_views = FALSE
    /\ calculate_stats = TRUE
    /\ map_layers = 0

\* water levels of the manhole nodes 0 and 1 over a time axis of n steps
ManholeS1(n) ==
    {[k \in 1 .. n |-> [nd \in Nodes |-> IF nd = 2 THEN Sample(1) ELSE Sample(lv[k][nd])]] :
        lv \in [1 .. n -> [{0, 1} -> LevelVals]]}

\* (available aggregates, bottom_level and surface_level of the first manhole)
ManholeCases ==
    {<<{}, 0, 1>>, <<{}, 0, 2>>, <<{}, 2, 1>>, <<{}, 2, 2>>, <<{"s1_max"}, 0, 2>>}

InitManholeInputs ==
    /\ \E ts \in TimestampSeqs, c \in ManholeCases :
         \E s1 \in ManholeS1(Len(ts)) :
            /\ ds = DataSource(ts, c[1], s1, DefaultQ(Len(ts)), DefaultQ(Len(ts)),
                               DefaultQPump(Len(ts)), Len(DefaultFlowlines))
            /\ v2_manhole = << Manhole(1, 11, c[2], c[3]), Manhole(2, 12, 0, 2) >>
    /\ node_mapping = DefaultNodeMapping
    /\ flowlines = DefaultFlowlines
    /\ v2_pumpstation = DefaultPumps
    /\ v2_pipe = DefaultPipes
    /\ v2_weir = DefaultWeirs

InitManhole ==
    /\ InitManholeInputs
    /\ InitState
    /\ pc = "manhole_begin"

SpecManhole == InitManhole /\ [][NextManhole \/ NextSession]_vars

QVals == {-1, 0, 2}

FlowAggs == {"q_cum", "q_cum_positive", "q_cum_negative"}

\* a flowline variable over a time axis of n steps
FlowSeries(n, vals) == [1 .. n -> [{0, 1} -> vals]]

\* water levels over n steps: nodes 0 and 1 vary and can be dry (masked)
FlowlineS1(n) ==
    {[k \in 1 .. n |-> [nd \in Nodes |-> IF nd = 2 THEN Sample(1) ELSE lv[k][nd]]] :
        lv \in [1 .. n -> [{0, 1} -> {Sample(0), Sample(3), Masked}]]}

InitFlowlineInputs ==
    /\ \E ts \in TimestampSeqs :
         LET n == Len(ts)
             nf == Len(DefaultFlowlines)
         IN  \/ \E q \in FlowSeries(n, QVals) :
                  ds = DataSource(ts, {}, DefaultS1(n), q, DefaultQ(n),
                                  DefaultQPump(n), nf)
             \/ \E u1 \in FlowSeries(n, QVals) :
                  ds = DataSource(ts, {}, DefaultS1(n), DefaultQ(n), u1,
                                  DefaultQPump(n), nf)
             \/ \E s1 \in FlowlineS1(n) :
                  ds = DataSource(ts, {}, s1, DefaultQ(n), DefaultQ(n),
                                  DefaultQPump(n), nf)
             \/ \E avail \in SUBSET FlowAggs, q \in FlowSeries(n, {-1, 2}) :
                  ds = DataSource(ts, avail, DefaultS1(n), q, DefaultQ(n),
                                  DefaultQPump(n), nf)
    /\ v2_manhole = DefaultManholes
    /\ node_mapping = DefaultNodeMapping
    /\ flowlines = DefaultFlowlines
    /\ v2_pumpstation = DefaultPumps
    /\ v2_pipe = DefaultPipes
    /\ v2_weir = DefaultWeirs

InitFlowline ==
    /\ InitFlowlineInputs
    /\ InitState
    /\ pc = "flowline_begin"

SpecFlowline == InitFlowline /\ [][NextFlowline \/ NextSession]_vars

PumpVals == {0, 1, 2}

\* the pump discharge over a time axis of n steps
PumpSeries(n) == [1 .. n -> [{0, 1} -> PumpVals]]

InitPumpInputs ==
    /\ \E ts \in TimestampSeqs, avail \in SUBSET {"q_pump_cum"},
          fl \in {DefaultFlowlines, SubSeq(DefaultFlowlines, 1, 1)} :
         \E q_pump \in PumpSeries(Len(ts)) :
            /\ ds = DataSource(ts, avail, DefaultS1(Len(ts)),
                               ConstSeries(Len(ts), Zeros(Len(fl))),
                               ConstSeries(Len(ts), Zeros(Len(fl))),
                               q_pump, Len(fl))
            /\ flowlines = fl
    /\ v2_manhole = DefaultManholes
    /\ node_mapping = DefaultNodeMapping
    /\ v2_pumpstation = DefaultPumps
    /\ v2_pipe = DefaultPipes
    /\ v2_weir = DefaultWeirs

InitPump ==
    /\ InitPumpInputs
    /\ InitState
    /\ pc = "pump_begin"

SpecPump == InitPump /\ [][NextPump \/ NextSession]_vars

\* a result file in which a flowline, a velocity and a node level vary together
InitJointInputs ==
    /\ \E ts \in TimestampSeqs :
         LET n == Len(ts)
         IN  \E a \in [1 .. n -> {-1, 2}], b \in [1 .. n -> {-2, 1}],
                c \in [1 .. n -> {0, 3}] :
                ds = DataSource(ts, {},
                        [k \in 1 .. n |-> [nd \in Nodes |->
                            IF nd = 0 THEN Sample(c[k]) ELSE Sample(1)]],
                        [k \in 1 .. n |-> [f \in {0, 1} |-> IF f = 0 THEN a[k] ELSE 0]],
                        [k \in 1 .. n |-> [f \in {0, 1} |-> IF f = 1 THEN b[k] ELSE 0]],
                        DefaultQPump(n), Len(DefaultFlowlines))
    /\ v2_manhole = DefaultManholes
    /\ node_mapping = DefaultNodeMapping
    /\ flowlines = DefaultFlowlines
    /\ v2_pumpstation = DefaultPumps
    /\ v2_pipe = DefaultPipes
    /\ v2_weir = DefaultWeirs

InitJoint ==
    /\ InitJointInputs
    /\ InitState
    /\ pc = "manhole_begin"

(***************************************************************************)
(* The three passes over the time axis, each on its own inputs; the        *)
(* manhole pass is followed by the flowline pass as in run().              *)
(***************************************************************************)
Init == InitManhole \/ InitFlowline \/ InitPump \/ InitJoint

Next == NextManhole \/ NextFlowline \/ NextPump \/ NextSession

Spec == Init /\ [][Next]_vars

(***************************************************************************)
(* run(): the whole calculation, and run() started again.                  *)
(***************************************************************************)
MaxRuns == 2        \* how many times run() is started

AllAggregates ==
    {"s1_max", "q_cum", "q_cum_positive", "q_cum_negative", "q_pump_cum"}

\* the time axes of the whole calculation
RunTimestamps == {<< 0, 2 >>, << 1, 3 >>, << 2 >>}

\* every node has its own level at every step
RunS1(n) == [k \in 1 .. n |-> [nd \in Nodes |-> Sample(nd + k)]]

\* the discharge of a weir flowline over the first two steps
WeirFlows == {<< 0, 0 >>, << 2, -1 >>, << -1, 2 >>}

\* flowline 0 is a pipe that carries more than any weir, 1 and 2 are weirs
RunQ(n, w1, w2) == [k \in 1 .. n |-> (0 :> 3 @@ 1 :> w1[k] @@ 2 :> w2[k])]

\* the aggregates of three flowlines; the negative cumulative discharge is
\* stored as a magnitude or signed
RunAggQCum == << (0 :> 9 @@ 1 :> 4 @@ 2 :> -2) >>

RunAggQCumPositive == << (0 :> 9 @@ 1 :> 5 @@ 2 :> 1) >>

RunAggQCumNegative(sgn) == << (0 :> 0 @@ 1 :> sgn * 1 @@ 2 :> sgn * 3) >>

\* (available aggregates, sign of the stored negative cumulative discharge)
ResultKinds == {<< {}, 1 >>, << AllAggregates, 1 >>, << AllAggregates, -1 >>}

RunDataSource(ts, kind, w1, w2) ==
    [DataSource(ts, kind[1], RunS1(Len(ts)), RunQ(Len(ts), w1, w2),
                ConstSeries(Len(ts), Zeros(3)), DefaultQPump(Len(ts)), 3)
        EXCEPT !.q_cum = RunAggQCum, !.q_cum_positive = RunAggQCumPositive,
               !.q_cum_negative = RunAggQCumNegative(kind[2])]

RunDataSources ==
    {RunDataSource(ts, kind, w1, w2) :
        ts \in RunTimestamps, kind \in ResultKinds, w1 \in WeirFlows,
        w2 \in WeirFlows}

\* a result file of one flowline and no aggregate
SmallDataSource(ts) ==
    DataSource(ts, {}, RunS1(Len(ts)), ConstSeries(Len(ts), (0 :> 2)),
               ConstSeries(Len(ts), Zeros(1)), DefaultQPump(Len(ts)), 1)

RunManholes == << Manhole(1, 11, 0, 2), Manhole(2, 12, 0, 2), Manhole(3, 13, 1, 3) >>

RunNodeMapping == (11 :> 1 @@ 12 :> 0 @@ 13 :> 2)

RunFlowlines ==
    << [id |-> 0, type |-> "v2_pipe", spatialite_id |-> 1, start_node_idx |-> 0,
        end_node_idx |-> 1, abs_length |-> 10],
       [id |-> 1, type |-> "v2_weir", spatialite_id |-> 1, start_node_idx |-> 1,
        end_node_idx |-> 2, abs_length |-> 20],
       [id |-> 2, type |-> "v2_weir", spatialite_id |-> 2, start_node_idx |-> 2,
        end_node_idx |-> 0, abs_length |-> 5] >>

Pipe(id, invert_level_start_point, invert_level_end_point, shape, width, height) ==
    [id |-> id, invert_level_start_point |-> invert_level_start_point,
     invert_level_end_point |-> invert_level_end_point, shape |-> shape,
     width |-> width, height |-> height]

RunPipes == << Pipe(1, Num(0), Num(1), 2, Num(2), Null) >>

RunWeirs == << [id |-> 1, crest_level |-> Num(1)], [id |-> 2, crest_level |-> Num(2)] >>

Model(manholes, mapping, lines, pipes, weirs, pumps) ==
    [v2_manhole |-> manholes, node_mapping |-> mapping, flowlines |-> lines,
     v2_pipe |-> pipes, v2_weir |-> weirs, v2_pumpstation |-> pumps]

BaseModel ==
    Model(RunManholes, RunNodeMapping, RunFlowlines, RunPipes, RunWeirs,
          DefaultPumps)

\* the model after elements were removed from it
ReducedModel ==
    Model(SubSeq(RunManholes, 1, 2), RunNodeMapping, RunFlowlines, << >>,
          SubSeq(RunWeirs, 1, 1), SubSeq(DefaultPumps, 1, 1))

\* the profiles a pipe can have
PipeProfiles ==
    {Pipe(1, Num(0), Num(1), 2, Num(0), Null),
     Pipe(1, Num(0), Num(1), 2, Null, Num(2)),
     Pipe(1, Num(0), Num(1), 5, Num(1), Num(4)),
     Pipe(1, Num(0), Num(1), 3, Num(2), Num(2)),
     Pipe(1, Null, Num(1), 2, Num(2), Null),
     Pipe(1, Num(-6), Num(5), 2, Num(4), Null)}

RunModels ==
    {BaseModel, ReducedModel}
    \cup {[BaseModel EXCEPT !.v2_pipe = << p >>] : p \in PipeProfiles}
    \cup {[BaseModel EXCEPT !.flowlines[1].abs_length = 0],
          [BaseModel EXCEPT !.v2_weir[2].crest_level = Null],
          [BaseModel EXCEPT !.v2_pipe = Append(RunPipes,
               Pipe(7, Num(0), Num(0), 2, Num(2), Null))],
          [BaseModel EXCEPT !.v2_weir = Append(RunWeirs,
               [id |-> 7, crest_level |-> Num(1)])],
          [BaseModel EXCEPT !.node_mapping = (12 :> 1 @@ 13 :> 0)]}

SmallModel ==
    Model(SubSeq(RunManholes, 2, 2), RunNodeMapping, SubSeq(RunFlowlines, 1, 1),
          RunPipes, << >>, DefaultPumps)

\* the locals of the statistics functions before they run
Locals ==
    [i |-> 0, prev_timestamp |-> 0, manhole_idx |-> << >>,
     manhole_surface_level |-> << >>, agg_h_max |-> FALSE, h_max |-> << >>,
     t_water_surface |-> << >>, qcum |-> << >>, qcum_pos |-> << >>,
     qcum_neg |-> << >>, agg_q_cum |-> FALSE, agg_q_cum_pos |-> FALSE,
     agg_q_cum_neg |-> FALSE, qmax |-> << >>, vmax |-> << >>, dh_max |-> << >>,
     hmax_start |-> << >>, hmax_end |-> << >>, q_cum |-> << >>,
     pump_agg_q_cum |-> FALSE, q_max |-> << >>]

InitRunInputs ==
    \E m \in RunModels \cup {SmallModel} :
        /\ ds \in IF m = SmallModel
                   THEN {SmallDataSource(ts) : ts \in RunTimestamps}
                   ELSE RunDataSources
        /\ v2_manhole = m.v2_manhole
        /\ node_mapping = m.node_mapping
        /\ flowlines = m.flowlines
        /\ v2_pipe = m.v2_pipe
        /\ v2_weir = m.v2_weir
        /\ v2_pumpstation = m.v2_pumpstation

InitRun ==
    /\ InitRunInputs
    /\ InitState
    /\ pc = "manhole_begin"

\* what the next run() finds: the same inputs, a result file with the other
\* aggregates, a model that lost elements, or a pipe flowline without length
SameModel ==
    Model(v2_manhole, node_mapping, flowlines, v2_pipe, v2_weir, v2_pumpstation)

NextModels ==
    {SameModel}
    \cup (IF Len(flowlines) = Len(RunFlowlines) THEN {ReducedModel} ELSE {})
    \cup (IF SameModel = BaseModel
          THEN {[BaseModel EXCEPT !.flowlines[1].abs_length = 0]} ELSE {})

NextDataSources ==
    {ds, [ds EXCEPT !.available =
                 IF ds.available = {} THEN AllAggregates ELSE {}]}

\* lines 137-141: views_geometry_columns has a row for pump_stats_view
has_res_views == res_views

\* lines 103-107: the statistics are calculated unless the result views exist
\* and the user answers the question 'Recalculate the statistics?' with no
CalculateStats(answer) == ~(has_res_views /\ ~answer)

\* lines 109-126: where run() goes on after the question
AfterQuestionSkipLayers(calculate) ==
    IF calculate THEN "manhole_begin" ELSE "finished"

AfterQuestion(calculate) ==
    IF calculate THEN "manhole_begin" ELSE "add_layers"

\* lines 980-1011, called at line 123: the pump view and its row in
\* views_geometry_columns
CreatePumpViews ==
    /\ pc = "done"
    /\ res_views' = TRUE
    /\ pc' = "add_layers"
    /\ UNCHANGED << inputVars, otherVars, session, i, prev_timestamp, manholeVars,
                    flowVars, pumpVars, manhole_stats, flowline_stats,
                    pumpline_stats, stat_source, calculate_stats, map_layers >>

\* lines 1013-1096, called at line 126: the layer group of the map is emptied
\* and filled with the layers of the result views
AddStatisticLayersToMap ==
    /\ pc = "add_layers"
    /\ map_layers' = run_nr
    /\ pc' = "finished"
    /\ UNCHANGED << inputVars, otherVars, session, i, prev_timestamp, manholeVars,
                    flowVars, pumpVars, manhole_stats, flowline_stats,
                    pumpline_stats, stat_source, res_views, calculate_stats >>

\* run() is started again after a run that came to its end: a new database
\* object and new locals, the stores as the previous run committed them, and
\* the answer of the user to the question whether to recalculate
Run ==
    /\ pc = "finished"
    /\ run_nr < MaxRuns
    /\ run_nr' = run_nr + 1
    /\ prev_run' = [pc |-> pc, inputs |-> inputVars, stores |-> storeVars]
    /\ \E answer \in BOOLEAN : calculate_stats' = CalculateStats(answer)
    /\ \E m \in NextModels, d \in NextDataSources :
          /\ m = ReducedModel => d = ds
          /\ ~calculate_stats' => (m = SameModel /\ d = ds)
          /\ ds' = d
          /\ v2_manhole' = m.v2_manhole
          /\ node_mapping' = m.node_mapping
          /\ flowlines' = m.flowlines
          /\ v2_pipe' = m.v2_pipe
          /\ v2_weir' = m.v2_weir
          /\ v2_pumpstation' = m.v2_pumpstation
    /\ i' = Locals.i
    /\ prev_timestamp' = Locals.prev_timestamp
    /\ manhole_idx' = Locals.manhole_idx
    /\ manhole_surface_level' = Locals.manhole_surface_level
    /\ agg_h_max' = Locals.agg_h_max
    /\ h_max' = Locals.h_max
    /\ t_water_surface' = Locals.t_water_surface
    /\ qcum' = Locals.qcum
    /\ qcum_pos' = Locals.qcum_pos
    /\ qcum_neg' = Locals.qcum_neg
    /\ agg_q_cum' = Locals.agg_q_cum
    /\ agg_q_cum_pos' = Locals.agg_q_cum_pos
    /\ agg_q_cum_neg' = Locals.agg_q_cum_neg
    /\ qmax' = Locals.qmax
    /\ vmax' = Locals.vmax
    /\ dh_max' = Locals.dh_max
    /\ hmax_start' = Locals.hmax_start
    /\ hmax_end' = Locals.hmax_end
    /\ q_cum' = Locals.q_cum
    /\ pump_agg_q_cum' = Locals.pump_agg_q_cum
    /\ q_max' = Locals.q_max
    /\ session' = NoSession
    /\ pc' = AfterQuestion(calculate_stats')
    /\ UNCHANGED << storeVars, call, res_views, map_layers >>

\* a one-step time axis ends the run at the first avg_timestep (line 322), so
\* the same exception of the later functions cannot occur in a whole run
NextRun ==
    \/ Run
    \/ NextManhole
    \/ FlowlineBegin
    \/ FlowlineStep
    \/ FlowlineSave
    \/ FlowlineSources
    \/ NextPipeAndWeir
    \/ PumpBegin
    \/ PumpStep
    \/ PumpSave
    \/ PumpSaveFail
    \/ PumpSources
    \/ CreatePumpViews
    \/ AddStatisticLayersToMap
    \/ NextSession

SpecRun == InitRun /\ [][NextRun]_vars

(***************************************************************************)
(* set_stat_source called on its own, any number of times.                 *)
(***************************************************************************)
SourceKeys ==
    {<< "manhole_stats", "max_filling" >>, << "manhole_stats", "end_filling" >>,
     << "pipe_stats", "max_filling" >>}

\* (from_aggregated, input_param, timestep)
SourceValues ==
    {<< TRUE, "s1_max", Null >>, << FALSE, "s1", Num(1) >>,
     << FALSE, "s1", Num(2) >>, << TRUE, "q_cum", Null >>}

InitStatSource ==
    /\ ds = DataSource(<< 0, 1 >>, {}, DefaultS1(2), DefaultQ(2), DefaultQ(2),
                       DefaultQPump(2), Len(DefaultFlowlines))
    /\ v2_manhole = DefaultManholes
    /\ node_mapping = DefaultNodeMapping
    /\ flowlines = DefaultFlowlines
    /\ v2_pumpstation = DefaultPumps
    /\ v2_pipe = DefaultPipes
    /\ v2_weir = DefaultWeirs
    /\ InitState
    /\ pc = "set_stat_source"

\* one call of set_stat_source (lines 340-358), commit included
SetStatSourceCall ==
    /\ pc = "set_stat_source"
    /\ \E key \in SourceKeys, v \in SourceValues :
          /\ stat_source' = SetStatSource(stat_source, key[1], key[2], v[1], v[2],
                                          v[3])
          /\ call' = (key :> [from_agg |-> v[1], input_param |-> v[2],
                              timestep |-> v[3], again |-> key \in DOMAIN call])
                     @@ call
    /\ UNCHANGED << inputVars, runVars, pipe_stats, weir_stats, run_nr, prev_run, session,
                    pc, i, prev_timestamp, manholeVars, flowVars, pumpVars,
                    manhole_stats, flowline_stats, pumpline_stats >>

SpecStatSource == InitStatSource /\ [][SetStatSourceCall]_vars

(***************************************************************************)
(* Properties.                                                             *)
(***************************************************************************)
\* timestamp[k] - timestamp[k-1] with timestamp[-1] := 0, k a Python index
Elapsed(k) ==
    ds.timestamps[k + 1] - (IF k = 0 THEN 0 ELSE ds.timestamps[k])

\* sum over the indices 0..k-1 of series[index][j] * Elapsed(index)
RECURSIVE StepAccumulation(_, _, _)
StepAccumulation(series, j, k) ==
    IF k = 0 THEN 0
    ELSE StepAccumulation(series, j, k - 1) + series[k][j] * Elapsed(k - 1)

NoFlowAggregate == ~agg_q_cum /\ ~agg_q_cum_pos /\ ~agg_q_cum_neg

\* C1: with none of q_cum, q_cum_positive and q_cum_negative taken from an
\* aggregate, after every time step and for every flowline the positive
\* partial sum minus the negative partial sum is the cumulative discharge.
ConservationOfDischarge ==
    (pc = "flowline_loop" /\ NoFlowAggregate) =>
        \A j \in DOMAIN qcum : qcum_pos[j] - qcum_neg[j] = qcum[j]

\* a pass of two or more steps over a flowline that ran in both directions
WitnessConservation ==
    /\ pc = "flowline_loop" /\ NoFlowAggregate
    /\ i = nTimestamps /\ i >= 2
    /\ \E j \in DOMAIN qcum :
          qcum_pos[j] > 0 /\ qcum_neg[j] > 0 /\ qcum[j] # 0

\* C2: after every step of the manhole time loop the accumulated
\* water-on-surface time of every manhole is >= 0 and <= the final timestamp.
DurationWithinSimulatedTime ==
    pc \in {"manhole_loop", "manhole_sources"} =>
        \A j \in DOMAIN t_water_surface :
            t_water_surface[j] >= 0 /\ t_water_surface[j] <= LastTimestamp

\* the whole simulated time on the surface for one manhole, none for another
WitnessDuration ==
    /\ pc = "manhole_loop" /\ i = nTimestamps /\ i >= 2
    /\ ds.timestamps[1] > 0
    /\ \E j, m \in DOMAIN t_water_surface :
          /\ t_water_surface[j] = LastTimestamp
          /\ t_water_surface[m] = 0

InPercentRange(x, full) == x = Null \/ (IsNum(x) /\ x.v >= 0 /\ x.v <= full)

WaterLevels == {Null, Num(0), Num(1), Num(3)}

InvertLevels == {Null, Num(1)}

ProfileHeights == {Null, Num(-2), Num(0), Num(2)}

\* C3: every filling percentage written by a run (manhole max_filling and
\* end_filling, pipe max_filling and end_filling) is null or within [0, 100].
FillingWithinBounds ==
    /\ \A k \in DOMAIN manhole_stats :
          /\ InPercentRange(manhole_stats[k].max_filling, 1000)
          /\ InPercentRange(manhole_stats[k].end_filling, 1000)
    /\ \A sl, el \in WaterLevels, si, ei \in InvertLevels, ph \in ProfileHeights :
          LET f == get_filling(sl, el, si, ei, ph)
          IN  f # Raise => InPercentRange(f, 100000)

\* C4: max_filling and end_filling of a manhole row are null whenever
\* bottom_level >= surface_level.
ManholeFillingUndefined ==
    \A k \in DOMAIN manhole_stats :
        manhole_stats[k].bottom_level >= manhole_stats[k].surface_level =>
            /\ manhole_stats[k].max_filling = Null
            /\ manhole_stats[k].end_filling = Null

\* C5: with step accumulation the cumulative discharge of a flowline at the
\* end of the pass is the sum over the time-step indices k of
\* q[k] * (timestamp[k] - timestamp[k-1]), timestamp[-1] := 0.
CumulativeDischargeSameIndex ==
    (pc = "flowline_sources" /\ ~agg_q_cum) =>
        \A k \in DOMAIN flowline_stats :
            flowline_stats[k].cum_discharge =
                StepAccumulation(ds.q, k - 1, nTimestamps)

\* sum of the intervals timestamp[k] - timestamp[k-1], 1 <= k < n, whose
\* sample of index k-1 at the node is >= level
RECURSIVE LeftStepDuration(_, _, _)
LeftStepDuration(node, level, n) ==
    IF n <= 1 THEN 0
    ELSE LeftStepDuration(node, level, n - 1)
         + (IF ds.s1[n - 1][node].val >= level THEN Elapsed(n - 1) ELSE 0)

\* C6: the water-on-surface duration of a manhole is the sum of the intervals
\* timestamp[k] - timestamp[k-1] over exactly the steps k >= 1 whose sample
\* of index k-1 is >= the surface level.
DurationIsLeftStep ==
    pc = "manhole_sources" =>
        \A j \in DOMAIN t_water_surface :
            t_water_surface[j] =
                LeftStepDuration(manhole_idx[j], manhole_surface_level[j],
                                 nTimestamps)

NodeMax(node) == SetMax({ds.s1[k][node].val : k \in 1 .. nTimestamps})

AbsMax(series, j) == SetMax({Abs(series[k][j]) : k \in 1 .. nTimestamps})

\* C7: at the end of the pass, without aggregate, max_waterlevel of a manhole
\* is the maximum of its s1 samples over all time-step indices, and
\* max_discharge and max_velocity of a flowline the maxima of |q| and |u1|.
RunningMaxima ==
    /\ (pc \in {"manhole_sources", "flowline_begin"} /\ ~agg_h_max) =>
          \A k \in DOMAIN manhole_stats :
              manhole_stats[k].max_waterlevel = NodeMax(manhole_stats[k].id)
    /\ pc \in {"flowline_sources", "pipe_and_weir"} =>
          \A k \in DOMAIN flowline_stats :
              /\ flowline_stats[k].max_discharge = AbsMax(ds.q, k - 1)
              /\ flowline_stats[k].max_velocity = AbsMax(ds.u1, k - 1)

\* both passes done; each maximum is reached at the last time step only
WitnessRunningMaxima ==
    /\ pc = "flowline_sources" /\ nTimestamps >= 2
    /\ manhole_stats # << >> /\ ~agg_h_max
    /\ \E k \in DOMAIN manhole_stats :
          /\ manhole_stats[k].max_waterlevel = NodeMax(manhole_stats[k].id)
          /\ \A m \in 1 .. (nTimestamps - 1) :
                ds.s1[m][manhole_stats[k].id].val < manhole_stats[k].max_waterlevel
    /\ \E k \in DOMAIN flowline_stats :
          /\ flowline_stats[k].max_discharge > 0
          /\ \A m \in 1 .. (nTimestamps - 1) :
                Abs(ds.q[m][k - 1]) < flowline_stats[k].max_discharge
    /\ \E k \in DOMAIN flowline_stats :
          /\ flowline_stats[k].max_velocity > 0
          /\ \A m \in 1 .. (nTimestamps - 1) :
                Abs(ds.u1[m][k - 1]) < flowline_stats[k].max_velocity

\* the provenance row of (table, field) carries from_agg and timestep
HasSource(table, field, from_agg, timestep) ==
    \E k \in DOMAIN stat_source :
        /\ stat_source[k].table = table /\ stat_source[k].field = field
        /\ stat_source[k].from_agg = from_agg
        /\ stat_source[k].timestep = timestep

\* q.clip(min=0) and -q.clip(max=0) of a whole series
Clipped(series, sgn) ==
    [k \in DOMAIN series |-> [j \in DOMAIN series[k] |->
        IF sgn > 0 THEN Maximum(series[k][j], 0) ELSE -Minimum(series[k][j], 0)]]

\* one metric: the aggregate alone with (from_agg, no timestep) when the
\* parameter is available, else the accumulation with (not from_agg, average
\* step)
Resolved(param, table, field, value, aggregate, accumulation) ==
    IF param \in ds.available
    THEN value = aggregate /\ HasSource(table, field, TRUE, Null)
    ELSE value = accumulation /\ HasSource(table, field, FALSE, Num(AvgTimestep))

AggregateShortcutNode ==
    pc = "flowline_begin" =>
        \A k \in DOMAIN manhole_stats :
            Resolved("s1_max", "manhole_stats", "max_waterlevel",
                     manhole_stats[k].max_waterlevel,
                     SetMax({ds.s1_max[m][manhole_stats[k].id].val :
                                m \in DOMAIN ds.s1_max}),
                     NodeMax(manhole_stats[k].id))

AggregateShortcutFlowline ==
    pc = "pipe_and_weir" =>
        \A k \in DOMAIN flowline_stats :
            /\ Resolved("q_cum", "flowline_stats", "cum_discharge",
                        flowline_stats[k].cum_discharge,
                        PyIndex(ds.q_cum, -1)[k - 1],
                        StepAccumulation(ds.q, k - 1, nTimestamps))
            /\ Resolved("q_cum_positive", "flowline_stats", "cum_discharge_positive",
                        flowline_stats[k].cum_discharge_positive,
                        PyIndex(ds.q_cum_positive, -1)[k - 1],
                        StepAccumulation(Clipped(ds.q, 1), k - 1, nTimestamps))
            /\ Resolved("q_cum_negative", "flowline_stats", "cum_discharge_negative",
                        flowline_stats[k].cum_discharge_negative,
                        PyIndex(ds.q_cum_negative, -1)[k - 1],
                        StepAccumulation(Clipped(ds.q, -1), k - 1, nTimestamps))

AggregateShortcutPump ==
    pc = "done" =>
        \A k \in DOMAIN pumpline_stats :
            Resolved("q_pump_cum", "pumpline_stats", "cum_discharge",
                     pumpline_stats[k].cum_discharge,
                     PyIndex(ds.q_pump_cum, -1)[k - 1],
                     StepAccumulation(ds.q_pump, k - 1, nTimestamps))

\* C8: for each metric with a possible aggregate (flowline q_cum,
\* q_cum_positive, q_cum_negative; pump q_pump_cum; node s1_max), by the
\* presence of that parameter alone: present, the value is the aggregate and
\* its provenance row has from_agg and no timestep; absent, the value is the
\* per-step accumulation and the row has the average step.
AggregateShortcut ==
    /\ AggregateShortcutNode
    /\ AggregateShortcutFlowline
    /\ AggregateShortcutPump

\* C9: without q_pump_cum the cum_discharge of every pump at the end of the
\* pass is the sum of q_pump[k] * (timestamp[k] - timestamp[k-1]).
PumpCumulativeDischarge ==
    (pc \in {"pump_sources", "done"} /\ ~pump_agg_q_cum) =>
        \A k \in DOMAIN pumpline_stats :
            pumpline_stats[k].cum_discharge =
                StepAccumulation(ds.q_pump, k - 1, nTimestamps)

\* the water levels the flowline loop reads in the iteration of index i
HeadSamples == GetValuesByTimestepNr("s1", i - 1)

\* C10: an iteration of the flowline time loop leaves max_head_difference[j]
\* unchanged when the sample of the start or of the end node of flowline j is
\* masked, and makes it max(previous, |h_start - h_end|) when both are
\* unmasked, whatever the masks at the other flowlines.
MaskedHeadDifference ==
    [][(pc = "flowline_loop" /\ i < nTimestamps /\ i' = i + 1) =>
          \A j \in DOMAIN dh_max :
              LET h_start == HeadSamples[StartIdx[j]]
                  h_end == HeadSamples[EndIdx[j]]
              IN  IF h_start.mask \/ h_end.mask
                  THEN dh_max'[j] = dh_max[j]
                  ELSE dh_max'[j] =
                           Maximum(dh_max[j], Abs(h_start.val - h_end.val))]_vars

\* the iteration just done read a dry end node for flowline 0, which kept its
\* earlier maximum, while flowline 1, with both ends wet, was raised
WitnessMaskedHeadDifference ==
    /\ pc = "flowline_loop" /\ i = 2
    /\ LET h == GetValuesByTimestepNr("s1", i - 2)
           before == GetValuesByTimestepNr("s1", i - 3)
       IN  /\ ~h[0].mask /\ h[1].mask /\ ~h[2].mask
           /\ ~before[0].mask /\ ~before[1].mask
           /\ dh_max[0] = Abs(before[0].val - before[1].val)
           /\ dh_max[0] > 0
    /\ dh_max[1] > 0

(***************************************************************************)
(* Provenance.                                                             *)
(***************************************************************************)
\* the provenance rows of one (table, field), in table order
KeyRows(rows, table, field) ==
    SelectSeq(rows, LAMBDA r : r.table = table /\ r.field = field)

\* C11: after any sequence of set_stat_source calls the provenance table
\* holds at most one row per (table, field): none for a pair that was never
\* set, and for a pair that was set exactly the row of its most recent call
\* (from_agg, input_param, timestep); a call for another pair leaves it as is.
ProvenanceIsLatestCall ==
    \A key \in SourceKeys :
        KeyRows(stat_source, key[1], key[2]) =
            IF key \in DOMAIN call
            THEN << StatSource(key[1], key[2], call[key].from_agg,
                               call[key].input_param, call[key].timestep) >>
            ELSE << >>

\* all three pairs are set, one of them for the second time
WitnessProvenanceIsLatestCall ==
    /\ DOMAIN call = SourceKeys
    /\ Len(stat_source) = Cardinality(SourceKeys)
    /\ \E key \in SourceKeys : call[key].again

\* the provenance table as the previous run left it
PrevStatSource == prev_run.stores[6]

\* C12: after a completed run every provenance row with from_agg = true has
\* timestep = null, also a row that a previous run wrote with from_agg = false
\* and a timestep.
AggregatedRowsHaveNoTimestep ==
    pc = "done" =>
        \A k \in DOMAIN stat_source :
            stat_source[k].from_agg => stat_source[k].timestep = Null

\* a second run found an aggregate where the first run accumulated over steps
WitnessAggregatedRowsHaveNoTimestep ==
    /\ pc = "done"
    /\ run_nr > 1
    /\ \E k \in DOMAIN stat_source, m \in DOMAIN PrevStatSource :
          /\ stat_source[k].table = PrevStatSource[m].table
          /\ stat_source[k].field = PrevStatSource[m].field
          /\ ~PrevStatSource[m].from_agg
          /\ PrevStatSource[m].timestep # Null
          /\ stat_source[k].from_agg

\* the five statistics tables by name
StatsTables ==
    [manhole_stats |-> manhole_stats, flowline_stats |-> flowline_stats,
     pipe_stats |-> pipe_stats, weir_stats |-> weir_stats,
     pumpline_stats |-> pumpline_stats]

\* the columns copied from the model or the result database
StaticFields ==
    [manhole_stats |-> {"id", "bottom_level", "surface_level"},
     flowline_stats |-> {"id", "abs_length"},
     pipe_stats |-> {"id", "invert_level_start", "invert_level_end",
                     "profile_height"},
     weir_stats |-> {"id", "crest_level"},
     pumpline_stats |-> {"id", "spatialite_id", "capacity"}]

HasSourceRow(table, field) ==
    \E k \in DOMAIN stat_source :
        stat_source[k].table = table /\ stat_source[k].field = field

\* C13: after a completed run every derived (non-static) field of the rows of
\* the manhole, flowline, pipe, weir and pump statistics tables has a
\* provenance row keyed by (table, field), with and without aggregates.
DerivedFieldsHaveProvenance ==
    pc = "done" =>
        \A table \in DOMAIN StatsTables :
            \A k \in DOMAIN StatsTables[table] :
                \A field \in DOMAIN StatsTables[table][k] \ StaticFields[table] :
                    HasSourceRow(table, field)

\* a completed run that filled all five tables, once from the aggregates and
\* once without them
WitnessDerivedFieldsHaveProvenance ==
    /\ pc = "done"
    /\ run_nr > 1
    /\ prev_run.inputs[1].available # ds.available
    /\ \A table \in DOMAIN StatsTables : StatsTables[table] # << >>

(***************************************************************************)
(* Replacement of the statistics tables.                                   *)
(***************************************************************************)
\* the tables as the previous run left them
PrevStatsTables ==
    [manhole_stats |-> prev_run.stores[1], flowline_stats |-> prev_run.stores[2],
     pipe_stats |-> prev_run.stores[3], weir_stats |-> prev_run.stores[4],
     pumpline_stats |-> prev_run.stores[5]]

\* the rows a run computes from the inputs and the locals it ends with
ComputedRows ==
    [manhole_stats |-> ManholeRows,
     flowline_stats |-> FlowlineRows,
     pipe_stats |-> [k \in 1 .. Len(v2_pipe) |-> PipeDerived(PipeRows[k])],
     weir_stats |-> [k \in 1 .. Len(v2_weir) |-> WeirDerived(WeirRows[k])],
     pumpline_stats |-> PumpRows]

\* C14: after a completed run each of the five statistics tables holds
\* exactly the rows computed in that run: no row of an earlier run survives,
\* also when the earlier run had elements the current run no longer has.
TablesHoldRowsOfThisRun ==
    pc = "done" =>
        \A table \in DOMAIN StatsTables : StatsTables[table] = ComputedRows[table]

\* a second run on a model that lost manholes, pipes, weirs and pumps
WitnessTablesHoldRowsOfThisRun ==
    /\ pc = "done"
    /\ run_nr > 1
    /\ \A table \in DOMAIN StatsTables \ {"flowline_stats"} :
          Len(PrevStatsTables[table]) > Len(StatsTables[table])

\* C15: the full calculation run a second time on the inputs of the first run
\* leaves the five statistics tables and the provenance table as the first
\* run left them.
RerunIsIdempotent ==
    (pc = "done" /\ run_nr > 1 /\ prev_run.inputs = inputVars) =>
        storeVars = prev_run.stores

\* a second run on the same inputs came to its end over non-empty tables,
\* with cumulative discharges accumulated over the steps
WitnessRerunIsIdempotent ==
    /\ pc = "done"
    /\ run_nr > 1
    /\ prev_run.inputs = inputVars
    /\ ds.available = {}
    /\ \A table \in DOMAIN StatsTables : StatsTables[table] # << >>
    /\ \E k \in DOMAIN flowline_stats : flowline_stats[k].cum_discharge # 0

\* a table is being replaced: its delete is executed, its commit is not
InReplace ==
    /\ pc \in {"bulk_save", "commit"}
    /\ session.next \in {"manhole_sources", "flowline_sources", "weir_save",
                          "pipe_update", "pump_sources"}

\* the committed rows of a table when this run began
BeforeRun(table) == IF run_nr = 1 THEN << >> ELSE PrevStatsTables[table]

\* C16: between the delete and the commit of a table's replacement the
\* committed content of the table is its content from before the run, and a
\* failure at any of these points leaves it so: the table is neither emptied
\* by the delete nor left with a part of the new rows.
FailedReplaceKeepsTable ==
    [][InReplace =>
          /\ StatsTables[session.table] = BeforeRun(session.table)
          /\ pc' = "failed" => StatsTables' = StatsTables]_vars

\* the second run failed while it replaced the manhole table, which still
\* holds the rows of the first run although the model lost a manhole since
WitnessFailedReplaceKeepsTable ==
    /\ pc = "failed"
    /\ run_nr > 1
    /\ AvgTimestepDefined
    /\ t_water_surface # << >>
    /\ qcum = << >>
    /\ manhole_stats = PrevStatsTables.manhole_stats
    /\ Len(manhole_stats) > Len(ManholeRows)

(***************************************************************************)
(* Elements of the model without a counterpart in the result.              *)
(***************************************************************************)
Unmapped(manhole) == manhole.connection_node_id \notin DOMAIN node_mapping

\* the row of the manhole table written for a manhole of the model
RowsOfManhole(manhole) ==
    {k \in DOMAIN manhole_stats :
        /\ ~Unmapped(manhole)
        /\ manhole_stats[k].id = node_mapping[manhole.connection_node_id]}

\* C17: a manhole whose connection node has no node-mapping entry is skipped:
\* the manhole pass and the run complete, the table has no row for it, and
\* the row of every mapped manhole carries that manhole's own levels and the
\* water levels read at its own result index.
UnmappedManholeSkipped ==
    pc \in {"manhole_sources", "done"} =>
        /\ Len(manhole_stats) =
               Cardinality({k \in DOMAIN v2_manhole : ~Unmapped(v2_manhole[k])})
        /\ \A k \in DOMAIN v2_manhole :
              LET manhole == v2_manhole[k]
              IN  IF Unmapped(manhole) THEN RowsOfManhole(manhole) = {}
                  ELSE \E r \in RowsOfManhole(manhole) :
                        LET row == manhole_stats[r]
                        IN  /\ RowsOfManhole(manhole) = {r}
                            /\ row.bottom_level = manhole.bottom_level
                            /\ row.surface_level = manhole.surface_level
                            /\ row.end_waterlevel =
                                   GetValuesByTimestepNr("s1", nTimestamps - 1)[row.id].val
                            /\ row.max_waterlevel =
                                   IF agg_h_max
                                   THEN SetMax({ds.s1_max[t][row.id].val :
                                                   t \in DOMAIN ds.s1_max})
                                   ELSE NodeMax(row.id)

\* the run is complete; the first manhole of the query has no result node,
\* the two after it have rows, with end levels that differ from node to node
WitnessUnmappedManholeSkipped ==
    /\ pc = "done"
    /\ Unmapped(v2_manhole[1])
    /\ Len(manhole_stats) = Len(v2_manhole) - 1
    /\ manhole_stats[1].end_waterlevel # manhole_stats[2].end_waterlevel

\* C18: a pipe or weir of the model without a flowline row is logged and left
\* out of its table, and the run goes on: building the rows of the pipe table
\* and of the weir table never ends the run.
UnmappedPipeOrWeirExcluded ==
    [][(pc \in {"pipe_and_weir", "weir_save"}) => (pc' # "failed")]_vars

(***************************************************************************)
(* Derived metrics of pipes and weirs.                                     *)
(***************************************************************************)
Undefined(x) == x \in {Null, Num(0)}

\* C19: when the divisor of a derived metric is zero or an input is null
\* (pipe filling with a profile height of zero or null, hydraulic gradient
\* with a length that is not positive, weir percentage with a maximum over
\* the weirs of zero or null, overfall height with a null crest level) the
\* run does not raise and the field is committed as null.
UndefinedMetricIsNull ==
    [][/\ pc \in {"pipe_update", "weir_update"} => pc' # "failed"
       /\ (pc = "commit" /\ pc' = "weir_update") =>
             \A k \in DOMAIN pipe_stats' :
                 /\ Undefined(pipe_stats'[k].profile_height) =>
                        /\ pipe_stats'[k].max_filling = Null
                        /\ pipe_stats'[k].end_filling = Null
                 /\ StatsOf(pipe_stats'[k].id).abs_length <= 0 =>
                        pipe_stats'[k].max_hydro_gradient = Null
       /\ (pc = "commit" /\ pc' = "pump_begin") =>
             \A k \in DOMAIN weir_stats' :
                 /\ Undefined(max_cum_discharge') =>
                        weir_stats'[k].perc_volume = Null
                 /\ Undefined(max_cum_discharge_pos') =>
                        weir_stats'[k].perc_volume_positive = Null
                 /\ Undefined(max_cum_discharge_neg') =>
                        weir_stats'[k].perc_volume_negative = Null
                 /\ weir_stats'[k].crest_level = Null =>
                        weir_stats'[k].max_overfall_height = Null]_vars

\* the largest magnitude of a cumulative discharge over the weirs
MaxMagnitude(field) ==
    SetMax({Abs(flowline_stats[k][field]) : k \in WeirFlowlineStats})

\* 100 * x / maximum rounded to two decimals, in units of 0.01 %
PercentOf(x, maximum) == Num(RoundDiv(10000 * x, maximum))

\* C20: for every weir row perc_volume, perc_volume_positive and
\* perc_volume_negative are 100 times the weir's cumulative discharge
\* (total, positive, negative) divided by the largest magnitude of the same
\* quantity over the weirs only, so the positive and the negative percentage
\* lie in [0, 100] and perc_volume in [-100, 100].
WeirPercentages ==
    pc \in {"pump_begin", "done"} =>
        \A k \in DOMAIN weir_stats :
            LET weir == weir_stats[k]
                stats == StatsOf(weir.id)
            IN  /\ weir.perc_volume =
                       PercentOf(stats.cum_discharge, MaxMagnitude("cum_discharge"))
                /\ weir.perc_volume_positive =
                       PercentOf(stats.cum_discharge_positive,
                                 MaxMagnitude("cum_discharge_positive"))
                /\ weir.perc_volume_negative =
                       PercentOf(stats.cum_discharge_negative,
                                 MaxMagnitude("cum_discharge_negative"))
                /\ InPercentRange(weir.perc_volume_positive, 10000)
                /\ InPercentRange(weir.perc_volume_negative, 10000)
                /\ Abs(weir.perc_volume.v) <= 10000

\* C21: for every weir row written by the weir update, max_overfall_height is
\* the larger of the two endpoint maximum water levels of its flowline minus
\* the crest level of the weir; crest 2.0 with endpoint maxima 2.3 and 2.1
\* gives 0.3 (levels in units of 0.001).
OverfallHeight ==
    /\ MaxOverfallHeight(2300, 2100, Num(2000)) = Num(300)
    /\ pc \in {"pump_begin", "done"} =>
           \A k \in DOMAIN weir_stats :
               LET weir == weir_stats[k]
                   stats == StatsOf(weir.id)
                   larger == IF stats.max_waterlevel_start >= stats.max_waterlevel_end
                             THEN stats.max_waterlevel_start
                             ELSE stats.max_waterlevel_end
               IN  weir.max_overfall_height = Num(larger - weir.crest_level.v)

WitnessOverfallHeight ==
    /\ pc = "done"
    /\ \E k \in DOMAIN weir_stats :
           /\ StatsOf(weir_stats[k].id).max_waterlevel_end >
                  StatsOf(weir_stats[k].id).max_waterlevel_start
           /\ IsNum(weir_stats[k].max_overfall_height)
    /\ \E k \in DOMAIN weir_stats :
           /\ StatsOf(weir_stats[k].id).max_waterlevel_start >
                  StatsOf(weir_stats[k].id).max_waterlevel_end
           /\ IsNum(weir_stats[k].max_overfall_height)

\* the part of the profile height that is filled at one end of a pipe: the
\* level above the invert level, not below 0 and not above the profile height
FilledHeight(level, invert_level, profile_height) ==
    LET above == IF profile_height < 0 THEN invert_level - level
                 ELSE level - invert_level
    IN  IF above <= 0 THEN 0
        ELSE IF above >= Abs(profile_height) THEN Abs(profile_height)
        ELSE above

\* 100 times the average of the two end ratios, in units of 0.001 %
Filling(start_level, end_level, pipe) ==
    Num(RoundDiv(
        100000 * (FilledHeight(start_level, pipe.invert_level_start.v,
                               pipe.profile_height.v)
                  + FilledHeight(end_level, pipe.invert_level_end.v,
                                 pipe.profile_height.v)),
        2 * Abs(pipe.profile_height.v)))

AllInputs(pipe) ==
    ~(Null \in {pipe.invert_level_start, pipe.invert_level_end,
                pipe.profile_height})

\* C22: for every pipe with all five inputs non-null, the filling percentage
\* is 100 times the average of the two end ratios, each end ratio being
\* (level - invert level at that end) / profile height clipped to [0, 1] on
\* its own before the average is taken; invert levels (1.0, 1.0), profile
\* height 2.0 and levels 2.0 at both ends give 50.0.
FillingIsAverageOfClippedEnds ==
    /\ get_filling(Num(2000), Num(2000), Num(1000), Num(1000), Num(2000))
           = Num(50000)
    /\ pc \in {"weir_update", "pump_begin", "done"} =>
           \A k \in DOMAIN pipe_stats :
               LET pipe == pipe_stats[k]
                   stats == StatsOf(pipe.id)
               IN  AllInputs(pipe) =>
                       /\ pipe.max_filling =
                              Filling(stats.max_waterlevel_start,
                                      stats.max_waterlevel_end, pipe)
                       /\ pipe.end_filling =
                              Filling(stats.end_waterlevel_start,
                                      stats.end_waterlevel_end, pipe)

\* a pipe that is over-full at its start and empty at its end is half filled
WitnessFillingIsAverageOfClippedEnds ==
    /\ pc = "done"
    /\ \E k \in DOMAIN pipe_stats :
           LET pipe == pipe_stats[k]
               stats == StatsOf(pipe.id)
           IN  /\ AllInputs(pipe)
               /\ stats.max_waterlevel_start - pipe.invert_level_start.v
                      > pipe.profile_height.v
               /\ stats.max_waterlevel_end < pipe.invert_level_end.v
               /\ pipe.max_filling = Num(50000)

\* C23: the statistics row of every pump gets id = (1-based index of the
\* id-mapping table) - 1, and the cumulative, maximum and end discharge stored
\* in the row are the values at that same 0-based position of the pump axis
\* of the simulation, whatever the order of the id-mapping table.
PumpRowHoldsValuesOfItsIndex ==
    pc \in {"pump_sources", "done"} =>
        \A k \in DOMAIN pumpline_stats :
            LET row == pumpline_stats[k]
                q_end == GetValuesByTimestepNr("q_pump", nTimestamps - 1)
            IN  /\ row.id = ds.id_mapping.v2_pumpstation[row.spatialite_id] - 1
                /\ row.cum_discharge = q_cum[row.id]
                /\ row.max_discharge = q_max[row.id]
                /\ row.end_discharge = q_end[row.id]

TimeLoops == {"manhole_loop", "flowline_loop", "pump_loop"}

\* the 0-based step whose samples iteration k of a time loop reads
StepRead(k) == Position(nTimestamps, TimestepNr(k))

\* C24: in each of the three time loops (manhole, flowline, pump) the samples
\* are consumed in strictly increasing time-step order, each time step exactly
\* once: the step read at iteration k+1 is greater than the one read at
\* iteration k, and no step is skipped or read twice.
StepsReadInIncreasingOrder ==
    (pc \in TimeLoops /\ i < nTimestamps) =>
        /\ i >= 1 => StepRead(i) > StepRead(i - 1)
        /\ \A k \in 0 .. (i - 1) : StepRead(k) # StepRead(i)

\* every step is read exactly once when a time loop has ended
EveryStepReadOnce ==
    (pc \in TimeLoops /\ i = nTimestamps) =>
        /\ {StepRead(k) : k \in 0 .. (i - 1)} = Indices(ds.timestamps)
        /\ \A k, l \in 0 .. (i - 1) : StepRead(k) = StepRead(l) => k = l

PrevPipeStats == prev_run.stores[3]

\* C25: for every pipe row max_hydro_gradient is 100 * max_waterlevel_head /
\* abs_length of its flowline statistics row (in units of 0.001 %) when
\* abs_length is > 0, and null otherwise, also on a re-run after a run in
\* which it was non-null.
HydroGradient ==
    pc \in {"weir_update", "pump_begin", "done"} =>
        \A k \in DOMAIN pipe_stats :
            LET pipe == pipe_stats[k]
                stats == StatsOf(pipe.id)
            IN  pipe.max_hydro_gradient =
                    IF stats.abs_length > 0
                    THEN Num(RoundDiv(100 * 1000 * stats.max_waterlevel_head,
                                      stats.abs_length))
                    ELSE Null

\* a re-run finds the flowline of a pipe without length after a run that
\* stored a gradient for it
WitnessHydroGradient ==
    /\ pc = "done"
    /\ run_nr > 1
    /\ \E k \in DOMAIN pipe_stats, l \in DOMAIN PrevPipeStats :
           /\ PrevPipeStats[l].id = pipe_stats[k].id
           /\ IsNum(PrevPipeStats[l].max_hydro_gradient)
           /\ PrevPipeStats[l].max_hydro_gradient.v > 0
           /\ StatsOf(pipe_stats[k].id).abs_length = 0
           /\ pipe_stats[k].max_hydro_gradient = Null

\* C26: when the result views exist and the user declines the recalculation,
\* run() creates, deletes and changes no row of a statistics table and no
\* provenance row; the statistics tables and the provenance change only on
\* the path where calculate_stats is true, and the map layers are added on
\* both paths.
DeclinedRunKeepsTables ==
    [][/\ (~calculate_stats') =>
              (has_res_views' /\ storeVars' = storeVars
                  /\ storeVars' = prev_run'.stores)
       /\ (storeVars' # storeVars) => (calculate_stats /\ calculate_stats')
       /\ (pc' = "finished") => (map_layers' = run_nr')]_vars

WitnessDeclinedRunKeepsTables ==
    /\ pc = "finished"
    /\ ~calculate_stats
    /\ run_nr > 1
    /\ map_layers = run_nr
    /\ manhole_stats # << >>
    /\ stat_source # << >>
    /\ storeVars = prev_run.stores

\* the fields every run computes from the samples of the raw series: the
\* running maxima and the end values of the loops and what is derived from
\* them alone
RawSeriesFields ==
    {<<"flowline_stats", f>> :
         f \in {"max_discharge", "end_discharge", "max_velocity", "end_velocity",
                "max_waterlevel_head", "max_waterlevel_start",
                "max_waterlevel_end", "end_waterlevel_start",
                "end_waterlevel_end"}}
    \cup {<<"pumpline_stats", f>> :
         f \in {"end_discharge", "max_discharge", "perc_end_discharge",
                "perc_max_discharge"}}
    \cup {<<"manhole_stats", f>> : f \in {"end_filling", "end_waterlevel"}}

\* C27: for every provenance row written by a run, input_param names a source
\* parameter that was read to compute the field in that run: on a
\* from-aggregate row it is the variable whose availability was tested and
\* whose values were fetched, and a field computed from the raw series is
\* never labelled with an aggregate parameter.
ProvenanceNamesParameterRead ==
    pc = "done" =>
        \A k \in DOMAIN stat_source :
            LET row == stat_source[k]
            IN  /\ row.from_agg => row.input_param \in ds.available
                /\ <<row.table, row.field>> \in RawSeriesFields =>
                       (~row.from_agg /\ ~(row.input_param \in AllAggregates))

\* the two parts of C27 on their own: the names of the positive and negative
\* cumulative discharge, and the label of perc_max_discharge
AggregateLabelIsVariableFetched ==
    pc = "done" =>
        \A k \in DOMAIN stat_source :
            stat_source[k].from_agg => stat_source[k].input_param \in ds.available

RawSeriesFieldNotLabelledAggregate ==
    pc = "done" =>
        \A k \in DOMAIN stat_source :
            <<stat_source[k].table, stat_source[k].field>> \in RawSeriesFields =>
                ~stat_source[k].from_agg

\* the tables the three statistics functions replace and then describe
ReplacedTables ==
    [manhole_stats |-> manhole_stats, flowline_stats |-> flowline_stats,
     pumpline_stats |-> pumpline_stats]

\* C28: for every result set with at least one timestamp, a run that has
\* committed the replaced rows of a statistics table (manhole, flowline,
\* pump) also records the provenance rows of that table before it ends; a
\* result set with exactly one timestamp does not leave a table replaced
\* with its provenance rows missing.
ReplacedTableHasProvenance ==
    (pc = "failed" /\ nTimestamps >= 1) =>
        \A t \in DOMAIN ReplacedTables :
            ReplacedTables[t] # << >> =>
                \E k \in DOMAIN stat_source : stat_source[k].table = t

====
